---- MODULE Spec2Model ----
(***************************************************************************)
(* Annotated-markdown round trip of md-feedback: splitDocument and         *)
(* mergeDocument (shared/document-writer.ts), the anchor resolver          *)
(* findMemoAnchorLine, and the gate evaluator (shared/gate-evaluator.ts).  *)
(*                                                                         *)
(* Text representation.  A JavaScript string is modelled by the sequence   *)
(* of its lines, i.e. by what s.split('\n') returns: a non-empty sequence  *)
(* of lines, a line being a sequence of one-character strings that holds   *)
(* no line break.  The empty string is << <<>> >>.  This is a bijection,   *)
(* so join('\n') is concatenation of line sequences and string             *)
(* concatenation glues the last line of the left operand to the first      *)
(* line of the right one.  `undefined` is the empty sequence << >>.        *)
(***************************************************************************)
EXTENDS Integers, Sequences, FiniteSets, TLC

VARIABLES
  pc,        \* what is in hand: "parts" (a bundle to merge) or "text" (a text to split)
  parts,     \* the DocumentParts in hand (NoParts before the first split)
  markdown,  \* the document text in hand
  parts0,    \* the bundle the run started from (NoParts when it started from text)
  text0,     \* the text the run started from
  saved,     \* the outputs of mergeDocument so far, oldest first
  call,      \* the arguments of the last call or edit (Null before the first)
  reply,     \* what the last tool call returned (Null before the first)
  resolvedIdx, \* the line index findMemoAnchorLine returned last (-1: no line)
  panel,     \* the fields of the panel provider (Null where no panel is open)
  sync,      \* the fields of the sync controller (Null where none is modelled)
  webview,   \* what the webview holds: the document loaded, the edit it is about to send
  queue      \* what the host has still to run: timers, change events, ends of applyEdit

vars == <<pc, parts, markdown, parts0, text0, saved, call, reply, resolvedIdx, panel,
          sync, webview, queue>>

\* --- characters ---

Ascii ==
  <<" ", "!", "\"", "#", "$", "%", "&", "'", "(", ")", "*", "+", ",", "-", ".", "/", "0", "1", "2", "3", "4", "5", "6", "7", "8", "9", ":", ";", "<", "=", ">", "?", "@", "A", "B", "C", "D", "E", "F", "G", "H", "I", "J", "K", "L", "M", "N", "O", "P", "Q", "R", "S", "T", "U", "V", "W", "X", "Y", "Z", "[", "\\", "]", "^", "_", "BQ", "a", "b", "c", "d", "e", "f", "g", "h", "i", "j", "k", "l", "m", "n", "o", "p", "q", "r", "s", "t", "u", "v", "w", "x", "y", "z", "{", "|", "}", "~">>

\* charCodeAt for the printable ASCII range (BQ stands for the grave accent, code 96)
\* ZWSP stands for U+200B, which the single-line dialect uses to mask a comment closer
\* NL stands for the line feed, code 10, which only a string flattened by Flat contains
CharCode ==
  [c \in {Ascii[i] : i \in 1..95} \cup {"ZWSP", "NL"} |->
     IF c = "ZWSP" THEN 8203
     ELSE IF c = "NL" THEN 10
     ELSE 31 + CHOOSE i \in 1..95 : Ascii[i] = c]

\* the character classes \s, \d and \w over the alphabet of the model
SpaceChars == {" ", "NL"}
DigitChars == {"0", "1", "2", "3", "4", "5", "6", "7", "8", "9"}
WordChars ==
  {"0", "1", "2", "3", "4", "5", "6", "7", "8", "9", "A", "B", "C", "D", "E", "F",
   "G", "H", "I", "J", "K", "L", "M", "N", "O", "P", "Q", "R", "S", "T", "U", "V",
   "W", "X", "Y", "Z", "a", "b", "c", "d", "e", "f", "g", "h", "i", "j", "k", "l",
   "m", "n", "o", "p", "q", "r", "s", "t", "u", "v", "w", "x", "y", "z", "_"}

IsSpace(c) == c \in SpaceChars
IsDigit(c) == c \in DigitChars
IsWord(c) == c \in WordChars

\* --- strings ---

EmptyStr == << <<>> >>
Undefined == << >>
One(line) == <<line>>
Falsy(s) == s = Undefined \/ s = EmptyStr
OrElse(s, d) == IF Falsy(s) THEN d ELSE s

MinOf(S) == CHOOSE x \in S : \A y \in S : x <= y
MaxOf(S) == CHOOSE x \in S : \A y \in S : x >= y
\* the first position of a search, or d when it finds none
firstOr(S, d) == IF S = {} THEN d ELSE MinOf(S)

Last(s) == s[Len(s)]
Front(s) == SubSeq(s, 1, Len(s) - 1)

\* s + t
Cat(s, t) == Front(s) \o <<Last(s) \o t[1]>> \o Tail(t)

RECURSIVE filter(_, _)
\* Array.prototype.filter: the elements of seq whose flag in keep is TRUE, in order
filter(seq, keep) ==
  IF seq = << >> THEN << >>
  ELSE (IF Head(keep) THEN <<Head(seq)>> ELSE << >>) \o filter(Tail(seq), Tail(keep))

RECURSIVE JoinWith(_, _)
\* strs.join(sep) where sep is zero or more line breaks given as blank lines to put between
JoinWith(strs, gap) ==
  IF Len(strs) = 0 THEN EmptyStr
  ELSE IF Len(strs) = 1 THEN strs[1]
  ELSE strs[1] \o gap \o JoinWith(Tail(strs), gap)

JoinNL(strs) == JoinWith(strs, << >>)
JoinNLNL(strs) == JoinWith(strs, << <<>> >>)

IsBlank(line) == \A i \in 1..Len(line) : IsSpace(line[i])

Trim(line) ==
  LET ix == {i \in 1..Len(line) : ~IsSpace(line[i])}
  IN IF ix = {} THEN <<>> ELSE SubSeq(line, MinOf(ix), MaxOf(ix))

TrimEndLine(line) ==
  LET ix == {i \in 1..Len(line) : ~IsSpace(line[i])}
  IN IF ix = {} THEN <<>> ELSE SubSeq(line, 1, MaxOf(ix))

TrimStartLine(line) ==
  LET ix == {i \in 1..Len(line) : ~IsSpace(line[i])}
  IN IF ix = {} THEN <<>> ELSE SubSeq(line, MinOf(ix), Len(line))

\* String.prototype.trimEnd / trim on a string that may hold line breaks
TrimEndStr(s) ==
  LET ix == {i \in 1..Len(s) : ~IsBlank(s[i])}
  IN IF ix = {} THEN EmptyStr
     ELSE Append(SubSeq(s, 1, MaxOf(ix) - 1), TrimEndLine(s[MaxOf(ix)]))

TrimStr(s) ==
  LET ix == {i \in 1..Len(s) : ~IsBlank(s[i])}
  IN IF ix = {} THEN EmptyStr
     ELSE IF MinOf(ix) = MaxOf(ix) THEN <<Trim(s[MinOf(ix)])>>
     ELSE <<TrimStartLine(s[MinOf(ix)])>> \o SubSeq(s, MinOf(ix) + 1, MaxOf(ix) - 1)
          \o <<TrimEndLine(s[MaxOf(ix)])>>

StartsWith(line, p) == Len(line) >= Len(p) /\ SubSeq(line, 1, Len(p)) = p
EndsWith(line, p) == Len(line) >= Len(p) /\ SubSeq(line, Len(line) - Len(p) + 1, Len(line)) = p
DropFirst(line, n) == SubSeq(line, n + 1, Len(line))
DropLast(line, n) == SubSeq(line, 1, Len(line) - n)

\* line.includes(needle) for a needle without line break
LineIncludes(line, needle) ==
  \E i \in 0..(Len(line) - Len(needle)) : SubSeq(line, i + 1, i + Len(needle)) = needle

\* lines[i].includes(needle): a needle with a line break is in no line
Includes(line, needle) == Len(needle) = 1 /\ LineIncludes(line, needle[1])

RECURSIVE EscLine(_)
EscLine(line) ==
  IF line = <<>> THEN <<>>
  ELSE (IF Head(line) = "\"" THEN <<"&","q","u","o","t",";">> ELSE <<Head(line)>>) \o EscLine(Tail(line))

\* esc of serializeMemoV2: every double quote becomes &quot;
esc(s) == [i \in 1..Len(s) |-> EscLine(s[i])]

\* --- numbers ---

\* the digits of Number.prototype.toString, radix 10 and 16
HexDigits == <<"0", "1", "2", "3", "4", "5", "6", "7", "8", "9", "a", "b", "c", "d", "e", "f">>

RECURSIVE ToDec(_)
\* String(n) for n >= 0
ToDec(n) == IF n < 10 THEN <<HexDigits[n + 1]>> ELSE Append(ToDec(n \div 10), HexDigits[(n % 10) + 1])

RECURSIVE parseInt(_)
\* parseInt(digits, 10) on a non-empty run of digits
parseInt(ds) ==
  IF Len(ds) = 0 THEN 0 ELSE 10 * parseInt(Front(ds)) + (CharCode[Last(ds)] - 48)

\* --- Hash utility (djb2) ---

Half == 65536

RECURSIVE Djb2(_, _, _)
\* the 32-bit accumulator is kept as two 16-bit halves: (33*hash + c) mod 2^32
Djb2(line, hi, lo) ==
  IF line = <<>> THEN <<hi, lo>>
  ELSE LET t == 33 * lo + CharCode[Head(line)]
       IN Djb2(Tail(line), (33 * hi + (t \div Half)) % Half, t % Half)

Hex4(n) ==
  <<HexDigits[((n \div 4096) % 16) + 1], HexDigits[((n \div 256) % 16) + 1],
    HexDigits[((n \div 16) % 16) + 1], HexDigits[(n % 16) + 1]>>

Chunk == 16

RECURSIVE Djb2Long(_, _)
\* the loop over a long string, the accumulator h carried from one stretch of Chunk
\* characters to the next (h is never negative: reading it first keeps the evaluation of
\* one stretch from nesting inside the next)
Djb2Long(t, h) ==
  IF h[1] < 0 \/ Len(t) <= Chunk THEN Djb2(t, h[1], h[2])
  ELSE Djb2Long(SubSeq(t, Chunk + 1, Len(t)), Djb2(SubSeq(t, 1, Chunk), h[1], h[2]))

hashLine(line) ==
  LET h == Djb2Long(line, <<0, 5381>>) IN Hex4(h[1]) \o Hex4(h[2])


\* --- Regex patterns ---

\* A pattern is the sequence of the items of the regular expression, anchored at the
\* start of the string and matched against one line.  The items:
\*   <<"lit", l>>          the literal l            <<"lit?", l>>   l, optionally
\*   <<"\\s*">>, <<"\\s+">>  white space
\*   <<"quoted", n>>       "([^"]{n,})", capturing  <<"(\\d+)">>, <<"(\\w+)">>  capturing
\*   <<"\\d+">>             digits, not capturing    <<"\\b">>  a word boundary
\*   <<"opt", items, n>>   (?:items)? with n captures inside
\*   <<"alt", ls>>         (l1|l2|...), capturing
\*   <<"(.*?)\\s*$", l>>    (.*?)\s*l$               <<".*$", l>>    .*l$
\*   <<"(.+)$">>           (.+)$                    <<"$">>         the end of the string
\*   <<"search", l>>       an occurrence of l anywhere from here on (an unanchored pattern)
\* In every pattern below the item after a greedy run cannot start inside the run, so
\* the run is matched without backtracking; "opt" backtracks over its group.

NoMatch == [ok |-> FALSE]

StartsWithAt(t, p, lit) ==
  p >= 1 /\ p + Len(lit) - 1 <= Len(t) /\ SubSeq(t, p, p + Len(lit) - 1) = lit

\* the first position from p on whose character is not in the class
RunEnd(t, p, class) == firstOr({i \in p..Len(t) : t[i] \notin class}, Len(t) + 1)

\* the first position from p on where lit occurs, 0 for none
IndexFrom(t, p, lit) == firstOr({i \in p..Len(t) : StartsWithAt(t, i, lit)}, 0)

RECURSIVE exec(_, _, _, _)

\* a run of a character class from p to e - 1, at least min long, captured or not
runStep(rest, t, p, e, caps, min, capture) ==
  IF e - p >= min
  THEN exec(rest, t, e, IF capture THEN Append(caps, One(SubSeq(t, p, e - 1))) ELSE caps)
  ELSE NoMatch

\* "([^"]{min,})" at p, q being the position of the next double quote after p (0 for none)
quotedStep(rest, t, p, q, caps, min) ==
  IF StartsWithAt(t, p, <<"\"">>) /\ q - p - 1 >= min
  THEN exec(rest, t, q + 1, Append(caps, One(SubSeq(t, p + 1, q - 1))))
  ELSE NoMatch

\* (?:group)? with n captures: with is the match of the group followed by the rest
optStep(rest, t, p, caps, with, n) ==
  IF with.ok THEN with ELSE exec(rest, t, p, caps \o [x \in 1..n |-> Undefined])

\* (l1|l2|...) at p: hits are the alternatives found there, the leftmost one is taken
altStep(rest, t, p, caps, alts, hits) ==
  IF hits = {} THEN NoMatch
  ELSE exec(rest, t, p + Len(alts[MinOf(hits)]), Append(caps, One(alts[MinOf(hits)])))

\* tail$ with the literal l at the end of the line, the part before it captured or not
tailStep(rest, t, p, l, caps, capture) ==
  IF EndsWith(t, l) /\ Len(t) - Len(l) >= p - 1
  THEN exec(rest, t, Len(t) + 1,
            IF capture THEN Append(caps, One(TrimEndLine(SubSeq(t, p, Len(t) - Len(l)))))
            ELSE caps)
  ELSE NoMatch

\* an occurrence of a literal of length n at q (0 for none)
searchStep(rest, t, q, n, caps) ==
  IF q > 0 THEN exec(rest, t, q + n, caps) ELSE NoMatch

\* RegExp.prototype.exec of the items re on line t from position p, with the captures so
\* far: [ok, caps, end], caps[k] being match[k] (undefined for a group that took no part)
exec(re, t, p, caps) ==
  IF re = << >> THEN [ok |-> TRUE, caps |-> caps, end |-> p]
  ELSE
    LET it == Head(re)
        kind == it[1]
        rest == Tail(re)
    IN CASE kind = "lit" ->
              IF StartsWithAt(t, p, it[2]) THEN exec(rest, t, p + Len(it[2]), caps) ELSE NoMatch
         [] kind = "lit?" ->
              exec(rest, t, IF StartsWithAt(t, p, it[2]) THEN p + Len(it[2]) ELSE p, caps)
         [] kind = "\\s*" -> runStep(rest, t, p, RunEnd(t, p, SpaceChars), caps, 0, FALSE)
         [] kind = "\\s+" -> runStep(rest, t, p, RunEnd(t, p, SpaceChars), caps, 1, FALSE)
         [] kind = "\\d+" -> runStep(rest, t, p, RunEnd(t, p, DigitChars), caps, 1, FALSE)
         [] kind = "(\\d+)" -> runStep(rest, t, p, RunEnd(t, p, DigitChars), caps, 1, TRUE)
         [] kind = "(\\w+)" -> runStep(rest, t, p, RunEnd(t, p, WordChars), caps, 1, TRUE)
         [] kind = "quoted" ->
              quotedStep(rest, t, p, IndexFrom(t, p + 1, <<"\"">>), caps, it[2])
         [] kind = "opt" -> optStep(rest, t, p, caps, exec(it[2] \o rest, t, p, caps), it[3])
         [] kind = "alt" ->
              altStep(rest, t, p, caps, it[2],
                      {x \in 1..Len(it[2]) : StartsWithAt(t, p, it[2][x])})
         [] kind = "\\b" ->
              IF (p > 1 /\ p - 1 <= Len(t) /\ IsWord(t[p - 1])) # (p <= Len(t) /\ IsWord(t[p]))
              THEN exec(rest, t, p, caps) ELSE NoMatch
         [] kind = "(.*?)\\s*$" -> tailStep(rest, t, p, it[2], caps, TRUE)
         [] kind = ".*$" -> tailStep(rest, t, p, it[2], caps, FALSE)
         [] kind = "(.+)$" ->
              IF p <= Len(t)
              THEN exec(rest, t, Len(t) + 1, Append(caps, One(SubSeq(t, p, Len(t)))))
              ELSE NoMatch
         [] kind = "search" -> searchStep(rest, t, IndexFrom(t, p, it[2]), Len(it[2]), caps)
         [] kind = "$" -> IF p = Len(t) + 1 THEN exec(rest, t, p, caps) ELSE NoMatch

\* String.prototype.match(re) for a pattern without the g flag, on the line t
match(t, re) == exec(re, t, 1, << >>)

\* RegExp.prototype.test
test(re, t) == exec(re, t, 1, << >>).ok

\* v0.3 single-line: /^<!-- USER_MEMO\s+id="([^"]+)"(?:\s+color="([^"]+)")?(?:\s+status="([^"]+)")?\s*:\s*(.*?)\s*-->$/
MEMO_V3_RE ==
  <<<<"lit", <<"<","!","-","-"," ","U","S","E","R","_","M","E","M","O">>>>,
    <<"\\s+">>,
    <<"lit", <<"i","d","=">>>>,
    <<"quoted", 1>>,
    <<"opt", <<<<"\\s+">>,
              <<"lit", <<"c","o","l","o","r","=">>>>,
              <<"quoted", 1>>>>, 1>>,
    <<"opt", <<<<"\\s+">>,
              <<"lit", <<"s","t","a","t","u","s","=">>>>,
              <<"quoted", 1>>>>, 1>>,
    <<"\\s*">>,
    <<"lit", <<":">>>>,
    <<"\\s*">>,
    <<"(.*?)\\s*$", <<"-","-",">">>>>>>

\* /^<!-- USER_MEMO\s*$/
MEMO_V4_START_RE ==
  <<<<"lit", <<"<","!","-","-"," ","U","S","E","R","_","M","E","M","O">>>>,
    <<"\\s*">>,
    <<"$">>>>

\* /^-->$/
MEMO_V4_END_RE ==
  <<<<"lit", <<"-","-",">">>>>,
    <<"$">>>>

\* /^<!-- GATE\s*$/
GATE_START_RE ==
  <<<<"lit", <<"<","!","-","-"," ","G","A","T","E">>>>,
    <<"\\s*">>,
    <<"$">>>>

\* /^-->$/
GATE_END_RE ==
  <<<<"lit", <<"-","-",">">>>>,
    <<"$">>>>

\* /^<!-- PLAN_CURSOR\s*$/
CURSOR_START_RE ==
  <<<<"lit", <<"<","!","-","-"," ","P","L","A","N","_","C","U","R","S","O","R">>>>,
    <<"\\s*">>,
    <<"$">>>>

\* /^-->$/
CURSOR_END_RE ==
  <<<<"lit", <<"-","-",">">>>>,
    <<"$">>>>

\* /^<!-- CHECKPOINT\s+id="([^"]+)"\s+time="([^"]+)"\s+note="([^"]*)"\s+fixes=(\d+)
\*   \s+questions=(\d+)\s+highlights=(\d+)\s+sections="([^"]*)" -->$/
CHECKPOINT_RE ==
  <<<<"lit", <<"<","!","-","-"," ","C","H","E","C","K","P","O","I","N","T">>>>,
    <<"\\s+">>,
    <<"lit", <<"i","d","=">>>>,
    <<"quoted", 1>>,
    <<"\\s+">>,
    <<"lit", <<"t","i","m","e","=">>>>,
    <<"quoted", 1>>,
    <<"\\s+">>,
    <<"lit", <<"n","o","t","e","=">>>>,
    <<"quoted", 0>>,
    <<"\\s+">>,
    <<"lit", <<"f","i","x","e","s","=">>>>,
    <<"(\\d+)">>,
    <<"\\s+">>,
    <<"lit", <<"q","u","e","s","t","i","o","n","s","=">>>>,
    <<"(\\d+)">>,
    <<"\\s+">>,
    <<"lit", <<"h","i","g","h","l","i","g","h","t","s","=">>>>,
    <<"(\\d+)">>,
    <<"\\s+">>,
    <<"lit", <<"s","e","c","t","i","o","n","s","=">>>>,
    <<"quoted", 0>>,
    <<"lit", <<" ","-","-",">">>>>,
    <<"$">>>>

\* /^<!-- @memo\s+id="([^"]+)"(?:\s+color="([^"]+)")?(?:\s+date="([^"]+)")?\s*-->$/
LEGACY_MEMO_START_RE ==
  <<<<"lit", <<"<","!","-","-"," ","@","m","e","m","o">>>>,
    <<"\\s+">>,
    <<"lit", <<"i","d","=">>>>,
    <<"quoted", 1>>,
    <<"opt", <<<<"\\s+">>,
              <<"lit", <<"c","o","l","o","r","=">>>>,
              <<"quoted", 1>>>>, 1>>,
    <<"opt", <<<<"\\s+">>,
              <<"lit", <<"d","a","t","e","=">>>>,
              <<"quoted", 1>>>>, 1>>,
    <<"\\s*">>,
    <<"lit", <<"-","-",">">>>>,
    <<"$">>>>

\* /^<!-- @\/memo -->$/
LEGACY_MEMO_END_RE ==
  <<<<"lit", <<"<","!","-","-"," ","@","/","m","e","m","o"," ","-","-",">">>>>,
    <<"$">>>>

\* /^<!--$/
BANNER_START_RE ==
  <<<<"lit", <<"<","!","-","-">>>>,
    <<"$">>>>

\* /MD Feedback/
BANNER_CONTENT_RE ==
  <<<<"search", <<"M","D"," ","F","e","e","d","b","a","c","k">>>>>>

\* /^<!-- \/?(USER_FEEDBACK_NOTES|@\/?feedback-notes)\b.*-->$/
FEEDBACK_NOTES_RE ==
  <<<<"lit", <<"<","!","-","-"," ">>>>,
    <<"lit?", <<"/">>>>,
    <<"alt", <<<<"U","S","E","R","_","F","E","E","D","B","A","C","K","_","N","O","T","E","S">>,
              <<"@","f","e","e","d","b","a","c","k","-","n","o","t","e","s">>,
              <<"@","/","f","e","e","d","b","a","c","k","-","n","o","t","e","s">>>>>>,
    <<"\\b">>,
    <<".*$", <<"-","-",">">>>>>>

\* the pattern of parseAttrs: /^(\w+)="([^"]*)"$/
ATTR_RE ==
  <<<<"(\\w+)">>, <<"lit", <<"=">>>>, <<"quoted", 0>>, <<"$">>>>

\* if (m) attrs[m[1]] = m[2]: the pair of a matching line
pairOf(m) == IF m.ok THEN <<m.caps>> ELSE << >>

RECURSIVE attrPairs(_, _)
\* the pairs parseAttrs finds on the lines from position k on, as <<key, value>>, in order
attrPairs(lines, k) ==
  IF k > Len(lines) THEN << >>
  ELSE pairOf(match(Trim(lines[k]), ATTR_RE)) \o attrPairs(lines, k + 1)

\* Parse attribute key="value" pairs from multi-line comment body: the pairs in order
parseAttrs(lines) == attrPairs(lines, 1)

\* a.key: the value of the last pair with that key, or undefined
Attr(a, key) ==
  LET ix == {i \in 1..Len(a) : a[i][1] = One(key)}
  IN IF ix = {} THEN Undefined ELSE a[MaxOf(ix)][2]

\* --- the clock ---

\* new Date().toISOString() and Date.now() at clock reading now (a natural number):
\* rendered T<now> and <now>
toISOString(now) == One(<<"T">> \o ToDec(now))
DateNow(now) == ToDec(now)

\* --- types ---

Null == [null |-> TRUE]

\* Convert v0.3 color to v0.4 memo type
colorToType(color) ==
  IF color = One(<<"r","e","d">>) THEN One(<<"f","i","x">>)
  ELSE IF color = One(<<"b","l","u","e">>) THEN One(<<"q","u","e","s","t","i","o","n">>)
  ELSE One(<<"h","i","g","h","l","i","g","h","t">>)

\* --- Helper utilities ---

\* Find the nearest non-empty line content above bodyLines (null is Undefined)
findAnchorAbove(bodyLines) ==
  LET ix == {j \in 1..Len(bodyLines) : ~IsBlank(bodyLines[j])}
  IN IF ix = {} THEN Undefined ELSE One(Trim(bodyLines[MaxOf(ix)]))

\* the last line above, blank or not
findAnchorLineIdx_last(bodyLines) == Len(bodyLines) - 1

\* Find the nearest non-empty line index above bodyLines (0-based, -1 for none)
findAnchorLineIdx(bodyLines) ==
  LET ix == {j \in 1..Len(bodyLines) : ~IsBlank(bodyLines[j])}
  IN IF ix = {} THEN -1 ELSE MaxOf(ix) - 1

\* `L${anchorLine + 1}|${hashLine(bodyLines[anchorLine] || '')}`, or '' when anchorLine < 0
derivedAnchor(bodyLines) ==
  LET anchorLine == findAnchorLineIdx(bodyLines)
  IN IF anchorLine >= 0
     THEN One(<<"L">> \o ToDec(anchorLine + 1) \o <<"|">> \o hashLine(bodyLines[anchorLine + 1]))
     ELSE EmptyStr

RECURSIVE SplitOn(_, _)
\* line.split(c) for a one-character separator
SplitOn(line, c) ==
  LET ix == {i \in 1..Len(line) : line[i] = c}
  IN IF ix = {} THEN <<line>>
     ELSE <<SubSeq(line, 1, MinOf(ix) - 1)>> \o SplitOn(DropFirst(line, MinOf(ix)), c)

RECURSIVE ReplaceZwsp(_)
\* text.replace(/--\u200B>/g, '-->')
ReplaceZwsp(line) ==
  IF line = <<>> THEN <<>>
  ELSE IF StartsWith(line, <<"-", "-", "ZWSP", ">">>)
       THEN <<"-","-",">">> \o ReplaceZwsp(DropFirst(line, 4))
       ELSE <<Head(line)>> \o ReplaceZwsp(Tail(line))

\* --- splitDocument ---

IsFence(line) == StartsWith(line, <<"-","-","-">>) /\ IsBlank(DropFirst(line, 3))

\* the fence lines that can close a frontmatter whose opener runs to line j
Closers(lines, j) == {k \in (j + 2)..(Len(lines) - 1) : IsFence(lines[k])}

\* the last line of the match whose closing fence is line k: its \s* runs over the
\* blank lines after the fence, up to a line break
FrontmatterLast(lines, k) ==
  MaxOf({e \in k..(Len(lines) - 1) : \A x \in (k + 1)..e : IsBlank(lines[x])})

\* FRONTMATTER_RE = /^---\s*\n([\s\S]*?)\n---\s*\n/ on the whole text: the number of
\* lines the match covers (it ends right after a line break), 0 for no match.
\* The opener's greedy \s* may run over blank lines 2..j; the closer is then the first
\* fence line k >= j + 2 that is not the last line; a shorter opener is tried only when
\* the longer one finds no closer.
FrontmatterEnd(lines) ==
  LET J == {j \in 1..(Len(lines) - 1) :
              (\A x \in 2..j : IsBlank(lines[x])) /\ Closers(lines, j) # {}}
  IN IF Len(lines) >= 3 /\ IsFence(lines[1]) /\ J # {}
     THEN FrontmatterLast(lines, MinOf(Closers(lines, MaxOf(J))))
     ELSE 0

\* i++; while (i < lines.length && !END.test(lines[i].trim())) i++ : the position of the
\* closer of the block opened at line i (1-based), Len(lines) + 1 when there is none
BlockEnd(lines, i, END) ==
  firstOr({j \in (i + 1)..Len(lines) : test(END, Trim(lines[j]))}, Len(lines) + 1)

\* attrLines of the block opened at line i
attrLines(lines, i, END) == SubSeq(lines, i + 1, BlockEnd(lines, i, END) - 1)

\* while (i < lines.length && !lines[i].includes('-->')) i++ : where the banner ends
BannerEnd(lines, i) ==
  firstOr({j \in i..Len(lines) : LineIncludes(lines[j], <<"-","-",">">>)}, Len(lines) + 1)

\* l.replace(/^<!--\s*/, '').replace(/\s*-->$/, '') of the legacy memo lines
Strip(l) ==
  LET l1 == IF StartsWith(l, <<"<","!","-","-">>) THEN TrimStartLine(DropFirst(l, 4)) ELSE l
  IN IF EndsWith(l1, <<"-","-",">">>) THEN TrimEndLine(DropLast(l1, 3)) ELSE l1

\* the memo of a v0.3 single-line comment, v3Match being the match of MEMO_V3_RE
memoV3(v3Match, bodyLines, now) ==
  [id |-> v3Match.caps[1],
   type |-> colorToType(OrElse(v3Match.caps[2], One(<<"r","e","d">>))),
   status |-> OrElse(v3Match.caps[3], One(<<"o","p","e","n">>)),
   owner |-> One(<<"h","u","m","a","n">>),
   source |-> One(<<"g","e","n","e","r","i","c">>),
   color |-> OrElse(v3Match.caps[2], One(<<"r","e","d">>)),
   text |-> One(ReplaceZwsp(v3Match.caps[4][1])),
   anchorText |-> OrElse(findAnchorAbove(bodyLines), EmptyStr),
   anchor |-> derivedAnchor(bodyLines),
   createdAt |-> toISOString(now),
   updatedAt |-> toISOString(now)]

\* the memo of a v0.4 multi-line block with the attributes a
memoV4(a, bodyLines, now) ==
  [id |-> OrElse(Attr(a, <<"i","d">>), One(<<"m","e","m","o","_">> \o DateNow(now))),
   type |-> OrElse(Attr(a, <<"t","y","p","e">>), colorToType(OrElse(Attr(a, <<"c","o","l","o","r">>), One(<<"r","e","d">>)))),
   status |-> OrElse(Attr(a, <<"s","t","a","t","u","s">>), One(<<"o","p","e","n">>)),
   owner |-> OrElse(Attr(a, <<"o","w","n","e","r">>), One(<<"h","u","m","a","n">>)),
   source |-> OrElse(Attr(a, <<"s","o","u","r","c","e">>), One(<<"g","e","n","e","r","i","c">>)),
   color |-> OrElse(Attr(a, <<"c","o","l","o","r">>), One(<<"r","e","d">>)),
   text |-> OrElse(Attr(a, <<"t","e","x","t">>), EmptyStr),
   anchorText |-> OrElse(Attr(a, <<"a","n","c","h","o","r","T","e","x","t">>), OrElse(findAnchorAbove(bodyLines), EmptyStr)),
   anchor |-> OrElse(Attr(a, <<"a","n","c","h","o","r">>), EmptyStr),
   createdAt |-> OrElse(Attr(a, <<"c","r","e","a","t","e","d","A","t">>), toISOString(now)),
   updatedAt |-> OrElse(Attr(a, <<"u","p","d","a","t","e","d","A","t">>), toISOString(now))]

\* a.blockedBy.split(',').map(s => s.trim()).filter(Boolean)
blockedByOf(ids) ==
  filter([x \in 1..Len(ids) |-> One(Trim(ids[x]))], [x \in 1..Len(ids) |-> ~IsBlank(ids[x])])

\* the gate of a GATE block with the attributes a
gateOf(a, now) ==
  [id |-> OrElse(Attr(a, <<"i","d">>), One(<<"g","a","t","e","_">> \o DateNow(now))),
   type |-> OrElse(Attr(a, <<"t","y","p","e">>), One(<<"c","u","s","t","o","m">>)),
   status |-> OrElse(Attr(a, <<"s","t","a","t","u","s">>), One(<<"b","l","o","c","k","e","d">>)),
   blockedBy |-> IF Falsy(Attr(a, <<"b","l","o","c","k","e","d","B","y">>)) THEN << >>
                 ELSE blockedByOf(SplitOn(Attr(a, <<"b","l","o","c","k","e","d","B","y">>)[1], ",")),
   canProceedIf |-> OrElse(Attr(a, <<"c","a","n","P","r","o","c","e","e","d","I","f">>), EmptyStr),
   doneDefinition |-> OrElse(Attr(a, <<"d","o","n","e","D","e","f","i","n","i","t","i","o","n">>), EmptyStr)]

\* the cursor of a PLAN_CURSOR block with the attributes a
cursorOf(a, now) ==
  [taskId |-> OrElse(Attr(a, <<"t","a","s","k","I","d">>), EmptyStr),
   step |-> OrElse(Attr(a, <<"s","t","e","p">>), EmptyStr),
   nextAction |-> OrElse(Attr(a, <<"n","e","x","t","A","c","t","i","o","n">>), EmptyStr),
   lastSeenHash |-> OrElse(Attr(a, <<"l","a","s","t","S","e","e","n","H","a","s","h">>), EmptyStr),
   updatedAt |-> OrElse(Attr(a, <<"u","p","d","a","t","e","d","A","t">>), toISOString(now))]

\* cpMatch[7] ? cpMatch[7].split(',') : []
sectionsOf(ss) == [x \in 1..Len(ss) |-> One(ss[x])]

\* the checkpoint of a CHECKPOINT comment, cpMatch being the match of CHECKPOINT_RE
checkpointOf(cpMatch) ==
  [id |-> cpMatch.caps[1],
   timestamp |-> cpMatch.caps[2],
   note |-> cpMatch.caps[3],
   fixes |-> parseInt(cpMatch.caps[4][1]),
   questions |-> parseInt(cpMatch.caps[5][1]),
   highlights |-> parseInt(cpMatch.caps[6][1]),
   sectionsReviewed |-> IF cpMatch.caps[7] = EmptyStr THEN << >>
                        ELSE sectionsOf(SplitOn(cpMatch.caps[7][1], ","))]

\* the memo of a legacy block: legacyMatch is the match of LEGACY_MEMO_START_RE and
\* memoLines are the lines up to the closer
legacyMemo(legacyMatch, memoLines, bodyLines, now) ==
  [id |-> legacyMatch.caps[1],
   type |-> colorToType(OrElse(legacyMatch.caps[2], One(<<"r","e","d">>))),
   status |-> One(<<"o","p","e","n">>),
   owner |-> One(<<"h","u","m","a","n">>),
   source |-> One(<<"g","e","n","e","r","i","c">>),
   color |-> OrElse(legacyMatch.caps[2], One(<<"r","e","d">>)),
   text |-> TrimStr(JoinNL([x \in 1..Len(memoLines) |-> One(Strip(memoLines[x]))])),
   anchorText |-> OrElse(findAnchorAbove(bodyLines), EmptyStr),
   anchor |-> derivedAnchor(bodyLines),
   createdAt |-> OrElse(legacyMatch.caps[3], toISOString(now)),
   updatedAt |-> OrElse(legacyMatch.caps[3], toISOString(now))]

RECURSIVE Scan(_, _, _, _)
\* the scan loop of splitDocument from line i (1-based) with the collections st
Scan(lines, i, st, now) ==
  IF i > Len(lines) THEN st
  ELSE IF test(MEMO_V3_RE, Trim(lines[i])) THEN
    Scan(lines, i + 1,
         [st EXCEPT !.memos =
            Append(@, memoV3(match(Trim(lines[i]), MEMO_V3_RE), st.bodyLines, now))], now)
  ELSE IF test(MEMO_V4_START_RE, Trim(lines[i])) THEN
    Scan(lines, BlockEnd(lines, i, MEMO_V4_END_RE) + 1,
         [st EXCEPT !.memos =
            Append(@, memoV4(parseAttrs(attrLines(lines, i, MEMO_V4_END_RE)), st.bodyLines, now))],
         now)
  ELSE IF test(GATE_START_RE, Trim(lines[i])) THEN
    Scan(lines, BlockEnd(lines, i, GATE_END_RE) + 1,
         [st EXCEPT !.gates = Append(@, gateOf(parseAttrs(attrLines(lines, i, GATE_END_RE)), now))],
         now)
  ELSE IF test(CURSOR_START_RE, Trim(lines[i])) THEN
    Scan(lines, BlockEnd(lines, i, CURSOR_END_RE) + 1,
         [st EXCEPT !.cursor = cursorOf(parseAttrs(attrLines(lines, i, CURSOR_END_RE)), now)], now)
  ELSE IF test(CHECKPOINT_RE, Trim(lines[i])) THEN
    Scan(lines, i + 1,
         [st EXCEPT !.checkpoints = Append(@, checkpointOf(match(Trim(lines[i]), CHECKPOINT_RE)))],
         now)
  ELSE IF test(LEGACY_MEMO_START_RE, Trim(lines[i])) THEN
    Scan(lines, BlockEnd(lines, i, LEGACY_MEMO_END_RE) + 1,
         [st EXCEPT !.memos =
            Append(@, legacyMemo(match(Trim(lines[i]), LEGACY_MEMO_START_RE),
                                 attrLines(lines, i, LEGACY_MEMO_END_RE), st.bodyLines, now))],
         now)
  ELSE IF /\ test(BANNER_START_RE, Trim(lines[i]))
          /\ i + 1 <= Len(lines)
          /\ test(BANNER_CONTENT_RE, lines[i + 1]) THEN
    Scan(lines, BannerEnd(lines, i) + 1, st, now)
  ELSE IF test(FEEDBACK_NOTES_RE, Trim(lines[i])) THEN
    Scan(lines, i + 1, st, now)
  ELSE
    Scan(lines, i + 1, [st EXCEPT !.bodyLines = Append(@, lines[i])], now)

\* Trim trailing empty lines from body
TrimTrailingBlank(bodyLines) ==
  LET ix == {j \in 1..Len(bodyLines) : ~IsBlank(bodyLines[j])}
  IN IF ix = {} THEN << >> ELSE SubSeq(bodyLines, 1, MaxOf(ix))

\* bodyLines.join('\n')
joinLines(bodyLines) == JoinNL([j \in 1..Len(bodyLines) |-> One(bodyLines[j])])

\* the DocumentParts splitDocument returns, from the frontmatter and the collections st
DocumentParts(frontmatter, st) ==
  [frontmatter |-> frontmatter,
   body |-> joinLines(TrimTrailingBlank(st.bodyLines)),
   memos |-> st.memos,
   checkpoints |-> st.checkpoints,
   gates |-> st.gates,
   cursor |-> st.cursor,
   unknownComments |-> << >>]

\* splitDocument once the frontmatter match is known to cover the first fm lines
splitAfter(md, fm, now) ==
  DocumentParts(IF fm > 0 THEN Append(SubSeq(md, 1, fm), <<>>) ELSE EmptyStr,
                Scan(SubSeq(md, fm + 1, Len(md)), 1,
                     [bodyLines |-> << >>, memos |-> << >>, checkpoints |-> << >>,
                      gates |-> << >>, cursor |-> Null], now))

splitDocument(md, now) == splitAfter(md, FrontmatterEnd(md), now)

\* --- Serializers ---

\* the line `  key="value"` of a block (the value may bring line breaks of its own)
AttrLine(key, value) ==
  Cat(One(<<" ", " ">> \o key \o <<"=", "\"">>), Cat(value, One(<<"\"">>)))

\* the block without what the anchor said
serializeMemoV2_noAnchor(memo) ==
  JoinNL(<<One(<<"<","!","-","-"," ","U","S","E","R","_","M","E","M","O">>),
           AttrLine(<<"i","d">>, esc(memo.id)),
           AttrLine(<<"t","y","p","e">>, memo.type),
           AttrLine(<<"s","t","a","t","u","s">>, memo.status),
           AttrLine(<<"o","w","n","e","r">>, memo.owner),
           AttrLine(<<"s","o","u","r","c","e">>, esc(memo.source)),
           AttrLine(<<"c","o","l","o","r">>, memo.color),
           AttrLine(<<"t","e","x","t">>, esc(memo.text)),
           AttrLine(<<"a","n","c","h","o","r","T","e","x","t">>, esc(memo.anchorText)),
           AttrLine(<<"a","n","c","h","o","r">>, EmptyStr),
           AttrLine(<<"c","r","e","a","t","e","d","A","t">>, memo.createdAt),
           AttrLine(<<"u","p","d","a","t","e","d","A","t">>, memo.updatedAt),
           One(<<"-","-",">">>)>>)

serializeMemoV2(memo) ==
  JoinNL(<<One(<<"<","!","-","-"," ","U","S","E","R","_","M","E","M","O">>),
           AttrLine(<<"i","d">>, esc(memo.id)),
           AttrLine(<<"t","y","p","e">>, memo.type),
           AttrLine(<<"s","t","a","t","u","s">>, memo.status),
           AttrLine(<<"o","w","n","e","r">>, memo.owner),
           AttrLine(<<"s","o","u","r","c","e">>, esc(memo.source)),
           AttrLine(<<"c","o","l","o","r">>, memo.color),
           AttrLine(<<"t","e","x","t">>, esc(memo.text)),
           AttrLine(<<"a","n","c","h","o","r","T","e","x","t">>, esc(memo.anchorText)),
           AttrLine(<<"a","n","c","h","o","r">>, esc(memo.anchor)),
           AttrLine(<<"c","r","e","a","t","e","d","A","t">>, memo.createdAt),
           AttrLine(<<"u","p","d","a","t","e","d","A","t">>, memo.updatedAt),
           One(<<"-","-",">">>)>>)

RECURSIVE JoinComma(_)
\* strs.join(',')
JoinComma(strs) ==
  IF Len(strs) = 0 THEN EmptyStr
  ELSE IF Len(strs) = 1 THEN strs[1]
  ELSE Cat(strs[1], Cat(One(<<",">>), JoinComma(Tail(strs))))

serializeGate(gate) ==
  JoinNL(<<One(<<"<","!","-","-"," ","G","A","T","E">>),
           AttrLine(<<"i","d">>, gate.id),
           AttrLine(<<"t","y","p","e">>, gate.type),
           AttrLine(<<"s","t","a","t","u","s">>, gate.status),
           AttrLine(<<"b","l","o","c","k","e","d","B","y">>, JoinComma(gate.blockedBy)),
           AttrLine(<<"c","a","n","P","r","o","c","e","e","d","I","f">>, esc(gate.canProceedIf)),
           AttrLine(<<"d","o","n","e","D","e","f","i","n","i","t","i","o","n">>, esc(gate.doneDefinition)),
           One(<<"-","-",">">>)>>)

serializeCursor(cursor) ==
  JoinNL(<<One(<<"<","!","-","-"," ","P","L","A","N","_","C","U","R","S","O","R">>),
           AttrLine(<<"t","a","s","k","I","d">>, cursor.taskId),
           AttrLine(<<"s","t","e","p">>, cursor.step),
           AttrLine(<<"n","e","x","t","A","c","t","i","o","n">>, esc(cursor.nextAction)),
           AttrLine(<<"l","a","s","t","S","e","e","n","H","a","s","h">>, cursor.lastSeenHash),
           AttrLine(<<"u","p","d","a","t","e","d","A","t">>, cursor.updatedAt),
           One(<<"-","-",">">>)>>)

\* one ` key="value"` or ` key=value` piece of the checkpoint line
Piece(key, value, quoted) ==
  IF quoted THEN Cat(One(<<" ">> \o key \o <<"=", "\"">>), Cat(value, One(<<"\"">>)))
  ELSE Cat(One(<<" ">> \o key \o <<"=">>), value)

serializeCheckpoint(cp) ==
  LET note == esc(cp.note)
      sections == JoinComma(cp.sectionsReviewed)
  IN Cat(One(<<"<","!","-","-"," ","C","H","E","C","K","P","O","I","N","T">>),
     Cat(Piece(<<"i","d">>, cp.id, TRUE),
     Cat(Piece(<<"t","i","m","e">>, cp.timestamp, TRUE),
     Cat(Piece(<<"n","o","t","e">>, note, TRUE),
     Cat(Piece(<<"f","i","x","e","s">>, One(ToDec(cp.fixes)), FALSE),
     Cat(Piece(<<"q","u","e","s","t","i","o","n","s">>, One(ToDec(cp.questions)), FALSE),
     Cat(Piece(<<"h","i","g","h","l","i","g","h","t","s">>, One(ToDec(cp.highlights)), FALSE),
     Cat(Piece(<<"s","e","c","t","i","o","n","s">>, sections, TRUE), One(<<" ","-","-",">">>)))))))))

\* --- Anchor-based memo reinsertion ---

\* the pattern of findMemoAnchorLine: /^L(\d+)(?::L\d+)?\|(.+)$/
ANCHOR_RE ==
  <<<<"lit", <<"L">>>>, <<"(\\d+)">>,
    <<"opt", <<<<"lit", <<":","L">>>>, <<"\\d+">>>>, 0>>,
    <<"lit", <<"|">>>>, <<"(.+)$">>>>

\* memo.anchor.match(...): a string with a line break does not match
anchorMatch(anchor) == IF Len(anchor) = 1 THEN match(anchor[1], ANCHOR_RE) ELSE NoMatch

\* d >= 0 && d < lines.length && hashLine(lines[d]) === expectedHash
hashAt(lines, d, expectedHash) ==
  d >= 0 /\ d < Len(lines) /\ One(hashLine(lines[d + 1])) = expectedHash

ProbeRadius == 10

RECURSIVE searchNearby_plusFirst(_, _, _, _)
\* the search nearby looking at lineNum + delta before lineNum - delta
searchNearby_plusFirst(lines, lineNum, expectedHash, delta) ==
  IF delta > ProbeRadius THEN -1
  ELSE IF hashAt(lines, lineNum + delta, expectedHash) THEN lineNum + delta
  ELSE IF hashAt(lines, lineNum - delta, expectedHash) THEN lineNum - delta
  ELSE searchNearby_plusFirst(lines, lineNum, expectedHash, delta + 1)

RECURSIVE searchNearby(_, _, _, _)
\* Search nearby (within 10 lines) for the hash, from distance delta on: lineNum - delta
\* is looked at before lineNum + delta; -1 when no line within reach has the hash
searchNearby(lines, lineNum, expectedHash, delta) ==
  IF delta > ProbeRadius THEN -1
  ELSE IF hashAt(lines, lineNum - delta, expectedHash) THEN lineNum - delta
  ELSE IF hashAt(lines, lineNum + delta, expectedHash) THEN lineNum + delta
  ELSE searchNearby(lines, lineNum, expectedHash, delta + 1)

\* the exact line match alone
probe_exactOnly(lines, lineNum, expectedHash) ==
  IF hashAt(lines, lineNum, expectedHash) THEN lineNum ELSE -1

\* the exact line match, else the search nearby
probe(lines, lineNum, expectedHash) ==
  IF hashAt(lines, lineNum, expectedHash) THEN lineNum
  ELSE searchNearby(lines, lineNum, expectedHash, 1)

\* the anchor-hash step once the anchor is matched: m is the match of ANCHOR_RE
hashStep(lines, m) ==
  IF m.ok THEN probe(lines, parseInt(m.caps[1][1]) - 1, m.caps[2]) ELSE -1

\* Try anchor hash first; -1 when the step falls through
anchorHashLine(lines, memo) ==
  IF memo.anchor # EmptyStr THEN hashStep(lines, anchorMatch(memo.anchor)) ELSE -1

\* the first line that includes the needle, -1 for none
firstIncluding(lines, needle) ==
  LET hits == {i \in 1..Len(lines) : Includes(lines[i], needle)}
  IN IF hits = {} THEN -1 ELSE MinOf(hits) - 1

\* Fallback: search by anchorText content match; -1 when nothing is found
anchorTextLine(lines, memo) ==
  IF memo.anchorText # EmptyStr THEN firstIncluding(lines, TrimStr(memo.anchorText)) ELSE -1

\* the anchorText search first, the hash step when it finds nothing
orFallback_textFirst(hashIdx, lines, memo) ==
  IF anchorTextLine(lines, memo) >= 0 THEN anchorTextLine(lines, memo) ELSE hashIdx

\* the fallback applies when the hash step returned nothing
orFallback(hashIdx, lines, memo) ==
  IF hashIdx >= 0 THEN hashIdx ELSE anchorTextLine(lines, memo)

\* Find the best line index for a memo based on its anchor (0-based, -1 for none)
findMemoAnchorLine(lines, memo) == orFallback(anchorHashLine(lines, memo), lines, memo)

\* lineIdx of every memo, in bundle order
lineIdxs(lines, memos) == [k \in 1..Len(memos) |-> findMemoAnchorLine(lines, memos[k])]

\* insertionMap.get(i) alone: the memos that resolve nowhere are forgotten
memosHere_dropUnanchored(memos, lineIdx, i) ==
  filter([k \in 1..Len(memos) |-> serializeMemoV2(memos[k])],
         [k \in 1..Len(memos) |-> lineIdx[k] = i /\ i >= 0])

\* insertionMap.get(i) (unanchored for i = -1), serialized: the memos whose lineIdx is i,
\* in bundle order
memosHere(memos, lineIdx, i) ==
  filter([k \in 1..Len(memos) |-> serializeMemoV2(memos[k])],
         [k \in 1..Len(memos) |-> lineIdx[k] = i])

RECURSIVE BuildResult(_, _, _, _)
\* Build output with memos inserted after their anchor lines, from line i (0-based) on
BuildResult(lines, memos, lineIdx, i) ==
  IF i >= Len(lines) THEN << >>
  ELSE <<One(lines[i + 1])>> \o memosHere(memos, lineIdx, i)
       \o BuildResult(lines, memos, lineIdx, i + 1)

\* the result array once every memo has its lineIdx; unanchored memos go to the end
resultWith(lines, memos, lineIdx) ==
  BuildResult(lines, memos, lineIdx, 0) \o memosHere(memos, lineIdx, -1)

\* the result array of reinsertMemos: an entry is a body line or a serialized memo
reinsertMemosResult(body, memos) == resultWith(body, memos, lineIdxs(body, memos))

reinsertMemos(body, memos) ==
  IF Len(memos) = 0 THEN body ELSE JoinNL(reinsertMemosResult(body, memos))

\* --- mergeDocument ---

\* the cursor written before the gates and the checkpoints
mergeDocument_cursorFirst(p) ==
  LET sections ==
        (IF p.frontmatter # EmptyStr THEN <<TrimEndStr(p.frontmatter)>> ELSE << >>)
        \o <<reinsertMemos(p.body, p.memos)>>
        \o (IF p.cursor # Null THEN <<serializeCursor(p.cursor)>> ELSE << >>)
        \o [g \in 1..Len(p.gates) |-> serializeGate(p.gates[g])]
        \o [c \in 1..Len(p.checkpoints) |-> serializeCheckpoint(p.checkpoints[c])]
  IN Cat(JoinNLNL(sections), << <<>>, <<>> >>)

mergeDocument(p) ==
  LET sections ==
        (IF p.frontmatter # EmptyStr THEN <<TrimEndStr(p.frontmatter)>> ELSE << >>)
        \o <<reinsertMemos(p.body, p.memos)>>
        \o [g \in 1..Len(p.gates) |-> serializeGate(p.gates[g])]
        \o [c \in 1..Len(p.checkpoints) |-> serializeCheckpoint(p.checkpoints[c])]
        \o (IF p.cursor # Null THEN <<serializeCursor(p.cursor)>> ELSE << >>)
  IN Cat(JoinNLNL(sections), << <<>>, <<>> >>)


\* --- Gate Evaluator (shared/gate-evaluator.ts) ---

\* memos.find(m => m.id === id): the place of the first memo with the id, 0 when there is none
find(memos, id) == firstOr({k \in 1..Len(memos) : memos[k].id = id}, 0)

isOpen(m) == m.status = One(<<"o","p","e","n">>)

\* memos.some(m => m.status === 'open')
hasOpenMemos(memos) == \E k \in 1..Len(memos) : isOpen(memos[k])

\* m != null && m.status === 'open', for the memo find returned
isBlocking(memos, k) == k # 0 /\ isOpen(memos[k])

\* gate.blockedBy.map(id => memos.find(...)).filter(...): the ids whose memo blocks
blocking(gate, memos) ==
  filter(gate.blockedBy,
         [j \in 1..Len(gate.blockedBy) |-> isBlocking(memos, find(memos, gate.blockedBy[j]))])

\* blocked as soon as any memo with a listed id is open, whichever of them find returns
evaluateGate_anyWithId(gate, memos) ==
  IF \E k \in 1..Len(memos), j \in 1..Len(gate.blockedBy) :
       memos[k].id = gate.blockedBy[j] /\ isOpen(memos[k])
    THEN One(<<"b","l","o","c","k","e","d">>)
  ELSE IF ~hasOpenMemos(memos) THEN One(<<"d","o","n","e">>)
  ELSE One(<<"p","r","o","c","e","e","d">>)

evaluateGate(gate, memos) ==
  IF Len(gate.blockedBy) > 0 /\ Len(blocking(gate, memos)) > 0
    THEN One(<<"b","l","o","c","k","e","d">>)
  ELSE IF ~hasOpenMemos(memos) THEN One(<<"d","o","n","e">>)
  ELSE One(<<"p","r","o","c","e","e","d">>)

\* the gates as they stand, not evaluated again
evaluateAllGates_stale(gates, memos) == gates

\* Evaluate all gates and update their status
evaluateAllGates(gates, memos) ==
  [k \in 1..Len(gates) |-> [gates[k] EXCEPT !.status = evaluateGate(gates[k], memos)]]

\* --- MCP tool update_memo_status (mcp/tools.ts) ---

\* memo.status = status; if (owner) memo.owner = owner; memo.updatedAt = new Date().toISOString()
setStatus(memo, status, owner, now) ==
  [memo EXCEPT !.status = status,
               !.owner = IF Falsy(owner) THEN @ ELSE owner,
               !.updatedAt = toISOString(now)]

\* parts.gates = evaluateAllGates(parts.gates, parts.memos)
reevaluated(p) == [p EXCEPT !.gates = evaluateAllGates(p.gates, p.memos)]

\* parts after the handler changed the memo in place k and evaluated the gates again
updatedParts(p, k, status, owner, now) ==
  reevaluated([p EXCEPT !.memos[k] = setStatus(p.memos[k], status, owner, now)])

\* =========================================================================
\* The pipeline as a state machine: a bundle is merged, a text is split
\* =========================================================================

NoParts == [none |-> TRUE]

\* lines and words the inputs are made of
In ==
    [hello |-> <<"H", "e", "l", "l", "o">>,
     world |-> <<"W", "o", "r", "l", "d">>,
     fix |-> <<"f", "i", "x">>,
     sayHi |-> <<"s", "a", "y", " ", "\"", "h", "i", "\"">>,
     a |-> <<"a">>,
     b |-> <<"b">>,
     m1 |-> <<"m", "1">>,
     m2 |-> <<"m", "2">>,
     m3 |-> <<"m", "3">>,
     t0 |-> <<"t", "0">>,
     g1 |-> <<"g", "1">>,
     c1 |-> <<"c", "1">>,
     task |-> <<"T", "1">>,
     step |-> <<"1", "/", "2">>,
     go |-> <<"g", "o">>,
     title |-> <<"t", "i", "t", "l", "e", ":", " ", "x">>,
     review |-> <<"R", "e", "v", "i", "e", "w">>,
     note |-> <<"<", "!", "-", "-", " ", "n", "o", "t", "e", " ", "-", "-", ">">>,
     spaced |-> <<" ", "W", "o", "r", "l", "d", " ">>]

MaxSaves == 2
MaxClock == 2
Clock == 1..MaxClock

\* --- input bundles ---

Memo(id, text, anchorText, anchor) ==
  [id |-> One(id), type |-> One(<<"f","i","x">>), status |-> One(<<"o","p","e","n">>),
   owner |-> One(<<"h","u","m","a","n">>), source |-> One(<<"g","e","n","e","r","i","c">>),
   color |-> One(<<"r","e","d">>), text |-> text, anchorText |-> anchorText, anchor |-> anchor,
   createdAt |-> One(In.t0), updatedAt |-> One(In.t0)]

AnchorOf(n, line) == One(<<"L">> \o ToDec(n) \o <<"|">> \o hashLine(line))

Bodies == {EmptyStr, <<In.hello, In.world>>, <<In.hello, <<>>, In.world, <<>>>>}

MemoTexts == {One(In.fix), One(In.sayHi), <<In.a, In.b>>, EmptyStr}
AnchorTexts == {EmptyStr, One(In.world), One(In.spaced)}
Anchors == {EmptyStr, AnchorOf(1, In.hello), AnchorOf(5, In.world)}

\* lists of one memo: every text, and every way of being anchored
OneMemo ==
  {<<Memo(In.m1, t, One(In.world), EmptyStr)>> : t \in MemoTexts}
  \cup {<<Memo(In.m1, One(In.fix), at, an)>> : at \in AnchorTexts, an \in Anchors}

\* lists of two and three memos, co-anchored or not, resolved or not
MoreMemos ==
  {<<Memo(In.m1, One(In.fix), at, an), Memo(In.m2, One(In.fix), EmptyStr, an2)>> :
     at \in {EmptyStr, One(In.world)}, an \in {EmptyStr, AnchorOf(1, In.hello)},
     an2 \in {EmptyStr, AnchorOf(1, In.hello)}}
  \cup {<<Memo(In.m1, One(In.fix), EmptyStr, EmptyStr),
          Memo(In.m2, One(In.fix), One(In.world), EmptyStr),
          Memo(In.m3, One(In.fix), EmptyStr, AnchorOf(2, In.world))>>,
        <<Memo(In.m1, One(In.fix), One(In.world), EmptyStr),
          Memo(In.m1, One(In.fix), One(In.world), EmptyStr)>>}

MemoLists == {<< >>} \cup OneMemo \cup MoreMemos

GateIn(text) ==
  [id |-> One(In.g1), type |-> One(<<"m","e","r","g","e">>),
   status |-> One(<<"b","l","o","c","k","e","d">>),
   blockedBy |-> <<One(In.m1), One(In.m2)>>, canProceedIf |-> text, doneDefinition |-> EmptyStr]
CheckpointIn(note) ==
  [id |-> One(In.c1), timestamp |-> One(In.t0), note |-> note, fixes |-> 2, questions |-> 10,
   highlights |-> 0, sectionsReviewed |-> <<One(In.review)>>]
CursorIn(text) ==
  [taskId |-> One(In.task), step |-> One(In.step), nextAction |-> text,
   lastSeenHash |-> One(hashLine(In.hello)), updatedAt |-> One(In.t0)]

\* frontmatter, gates, checkpoints and cursor of the input bundles
NoExtras == [frontmatter |-> EmptyStr, gates |-> << >>, checkpoints |-> << >>, cursor |-> Null]
Extras ==
  {[frontmatter |-> <<<<"-","-","-">>, In.title, <<"-","-","-">>, <<>>>>,
    gates |-> <<GateIn(One(In.go))>>, checkpoints |-> <<CheckpointIn(One(In.go))>>,
    cursor |-> CursorIn(One(In.go))],
   [frontmatter |-> EmptyStr,
    gates |-> <<GateIn(One(In.sayHi))>>, checkpoints |-> <<CheckpointIn(One(In.sayHi))>>,
    cursor |-> CursorIn(One(In.sayHi))],
   [frontmatter |-> EmptyStr,
    gates |-> << >>, checkpoints |-> <<CheckpointIn(<<In.a, In.b>>)>>, cursor |-> Null],
   [frontmatter |-> <<<<"-","-","-">>, In.title, <<"-","-","-">>, <<>>>>,
    gates |-> <<GateIn(One(In.go)), [GateIn(One(In.go)) EXCEPT !.id = One(In.c1)]>>,
    checkpoints |-> <<CheckpointIn(One(In.go)), [CheckpointIn(One(In.fix)) EXCEPT !.id = One(In.g1)]>>,
    cursor |-> CursorIn(One(In.go))]}

Bundle(b, ms, x) ==
  [frontmatter |-> x.frontmatter, body |-> b, memos |-> ms, checkpoints |-> x.checkpoints,
   gates |-> x.gates, cursor |-> x.cursor, unknownComments |-> << >>]

Bundles ==
  {Bundle(b, ms, NoExtras) : b \in Bodies, ms \in MemoLists}
  \cup {Bundle(<<In.hello, In.world>>, ms, x) : ms \in {<< >>} \cup MoreMemos, x \in Extras}
  \cup {Bundle(EmptyStr, << >>, x) : x \in Extras \cup {[NoExtras EXCEPT !.frontmatter = y.frontmatter] : y \in Extras}}

\* --- actions ---

\* mergeDocument(parts)
Merge ==
  /\ pc = "parts"
  /\ Len(saved) < MaxSaves
  /\ markdown' = mergeDocument(parts)
  /\ saved' = Append(saved, markdown')
  /\ pc' = "text"
  /\ UNCHANGED <<parts, parts0, text0, call, reply, resolvedIdx, panel, sync, webview, queue>>

\* splitDocument(markdown), at some clock reading
Split ==
  /\ pc = "text"
  /\ \E now \in Clock : parts' = splitDocument(markdown, now)
  /\ pc' = "parts"
  /\ UNCHANGED <<markdown, parts0, text0, saved, call, reply, resolvedIdx, panel, sync, webview, queue>>

InitMerge ==
  /\ parts0 \in Bundles
  /\ parts = parts0
  /\ pc = "parts"
  /\ markdown = EmptyStr
  /\ text0 = EmptyStr
  /\ saved = << >>
  /\ call = Null /\ reply = Null /\ resolvedIdx = -1 /\ panel = Null /\ sync = Null /\ webview = Null /\ queue = Null

NextMerge == Merge \/ Split

SpecMerge == InitMerge /\ [][NextMerge]_vars

\* --- input texts ---

\* comments splitDocument knows nothing of
UnknownComments == {<<"<","!","-","-"," ","n","o","t","e"," ","-","-",">">>, <<"<","!","-","-"," ","T","O","D","O",":"," ","l","a","t","e","r"," ","-","-",">">>}

\* the block openers
Openers ==
  {<<"<","!","-","-"," ","U","S","E","R","_","M","E","M","O">>, <<"<","!","-","-"," ","G","A","T","E">>, <<"<","!","-","-"," ","P","L","A","N","_","C","U","R","S","O","R">>,
   <<"<","!","-","-"," ","@","m","e","m","o"," ","i","d","=","\"","m","1","\""," ","-","-",">">>}

\* what a text is made of: body lines, annotations in canonical form, other comments
Plain == {<<In.hello>>, <<In.world>>, << <<>> >>}
CanonicalBlocks ==
  {serializeMemoV2(Memo(In.m1, One(In.fix), EmptyStr, EmptyStr)),
   serializeMemoV2(Memo(In.m2, One(In.fix), One(In.hello), AnchorOf(1, In.hello))),
   serializeGate(GateIn(One(In.go))),
   serializeCheckpoint(CheckpointIn(One(In.go))),
   serializeCursor(CursorIn(One(In.go)))}

\* a text of the given chunks, with its final line break
TextOf(chunks) == JoinNL(chunks) \o << <<>> >>

\* texts whose comments are all in canonical form
CanonicalTexts ==
  {TextOf(<<c>>) : c \in Plain \cup CanonicalBlocks}
  \cup {TextOf(<<c, d>>) : c, d \in Plain \cup CanonicalBlocks}
  \cup {TextOf(<<<<In.hello>>, c, <<In.world>>>>) : c \in CanonicalBlocks}

\* a block with a foreign comment between its opener and its closer
BlockAround(opener, c) == <<opener, <<" "," ","i","d","=","\"","m","1","\"">>, c, <<"-","-",">">>>>

\* texts with a comment splitDocument does not recognize
TolerantTexts ==
  {TextOf(<<<<In.hello>>, <<c>>, d>>) : c \in UnknownComments, d \in Plain \cup CanonicalBlocks}
  \cup {TextOf(<<<<c>>, <<In.hello>>, <<d>>>>) : c, d \in UnknownComments}
  \cup {TextOf(<<<<In.hello>>, BlockAround(o, c), <<In.world>>>>) :
          o \in Openers \ {<<"<","!","-","-"," ","@","m","e","m","o"," ","i","d","=","\"","m","1","\""," ","-","-",">">>}, c \in UnknownComments}
  \cup {TextOf(<<<<In.hello>>, <<o>>, <<c>>, <<In.world>>>>) : o \in Openers, c \in UnknownComments}

\* texts with a block opener that is never closed
UnclosedTexts ==
  {TextOf(before \o <<<<o>>>> \o after) :
     before \in {<< >>, <<<<In.hello>>>>},
     o \in Openers,
     after \in {<< >>, <<<<In.world>>>>, <<<<<<" "," ","i","d","=","\"","m","1","\"">>>>, <<In.world>>>>}}

\* memos in the single-line dialect: red, blue with a status and quotes, another colour
V3Memos ==
  {<<"<","!","-","-"," ","U","S","E","R","_","M","E","M","O"," ","i","d","=","\"","m","1","\""," ","c","o","l","o","r","=","\"","r","e","d","\""," ",":"," ","f","i","x"," ","-","-",">">>,
   <<"<","!","-","-"," ","U","S","E","R","_","M","E","M","O"," ","i","d","=","\"","m","2","\""," ","c","o","l","o","r","=","\"","b","l","u","e","\""," ","s","t","a","t","u","s","=","\"","d","o","n","e","\""," ",":"," ","s","a","y"," ","\"","h","i","\""," ","-","-",">">>,
   <<"<","!","-","-"," ","U","S","E","R","_","M","E","M","O"," ","i","d","=","\"","m","3","\""," ","c","o","l","o","r","=","\"","y","e","l","l","o","w","\""," ",":"," ","n","o","t","e"," ","-","-",">">>}

\* memos in the legacy block dialect, with one and with two inner lines
LegacyBlocks ==
  {<<<<"<","!","-","-"," ","@","m","e","m","o"," ","i","d","=","\"","m","1","\""," ","c","o","l","o","r","=","\"","r","e","d","\""," ","-","-",">">>,
     <<"<","!","-","-"," ","f","i","x"," ","-","-",">">>,
     <<"<","!","-","-"," ","@","/","m","e","m","o"," ","-","-",">">>>>,
   <<<<"<","!","-","-"," ","@","m","e","m","o"," ","i","d","=","\"","m","2","\""," ","c","o","l","o","r","=","\"","b","l","u","e","\""," ","d","a","t","e","=","\"","t","0","\""," ","-","-",">">>,
     <<"<","!","-","-"," ","a"," ","-","-",">">>,
     <<"<","!","-","-"," ","b"," ","-","-",">">>,
     <<"<","!","-","-"," ","@","/","m","e","m","o"," ","-","-",">">>>>}

OldMemos == {<<l>> : l \in V3Memos} \cup LegacyBlocks

FrontmatterIn == <<<<"-","-","-">>, In.title, <<"-","-","-">>>>

\* texts with memos of the old dialects, below no line, a line, or a line and blank lines
MigrationTexts ==
  {TextOf(before \o <<m>> \o after) :
     before \in {<< >>, << << <<>> >> >>, <<<<In.hello>>>>, <<<<In.hello>>, <<In.world>>, << <<>> >>, << <<>> >> >>},
     m \in OldMemos,
     after \in {<< >>, <<<<In.world>>>>} \cup {<<<<In.world>>, n>> : n \in OldMemos}}
  \cup {TextOf(<<FrontmatterIn, <<In.hello>>, << <<>> >>, m, <<In.world>>>>) : m \in OldMemos}

Texts == CanonicalTexts \cup TolerantTexts \cup UnclosedTexts \cup MigrationTexts

\* a file is opened, then saved again and again
InitSave ==
  /\ text0 \in Texts
  /\ markdown = text0
  /\ pc = "text"
  /\ parts0 = NoParts
  /\ parts = NoParts
  /\ saved = << >>
  /\ call = Null /\ reply = Null /\ resolvedIdx = -1 /\ panel = Null /\ sync = Null /\ webview = Null /\ queue = Null

NextSave == Split \/ Merge

SpecSave == InitSave /\ [][NextSave]_vars


\* --- documents with gates ---

MaxCalls == 2

Open == One(<<"o","p","e","n">>)
Done == One(<<"d","o","n","e">>)
\* a memo under the first body line, with the given status
MemoIn(id, status) ==
  [Memo(id, One(In.fix), One(In.hello), AnchorOf(1, In.hello)) EXCEPT !.status = status]

GateOn(id, ids) == [GateIn(One(In.go)) EXCEPT !.id = One(id), !.blockedBy = ids]

\* memo lists: one memo, several, some sharing an id, some outside every blockedBy
GateMemos ==
  {<<MemoIn(In.m1, Open)>>,
   <<MemoIn(In.m1, Open), MemoIn(In.m2, Open)>>,
   <<MemoIn(In.m1, Open), MemoIn(In.m2, Done), MemoIn(In.m3, Open)>>,
   <<MemoIn(In.m1, Open), MemoIn(In.m1, Open)>>,
   <<MemoIn(In.m1, Done), MemoIn(In.m1, Open), MemoIn(In.m3, Done)>>}

GateLists ==
  {<<GateOn(In.g1, <<One(In.m1)>>)>>,
   <<GateOn(In.g1, <<One(In.m1), One(In.m2)>>), GateOn(In.c1, << >>)>>}

\* the files the tool is called on: saved with their gates evaluated
GateDocs ==
  {reevaluated(Bundle(<<In.hello, In.world>>, ms, [NoExtras EXCEPT !.gates = gs])) :
     ms \in GateMemos, gs \in GateLists}

\* the arguments of a call: memoId, status and, optionally, owner
MemoIds == {One(In.m1), One(In.m2), One(In.m3)}
Calls ==
  {[memoId |-> id, status |-> st, owner |-> Undefined] : id \in MemoIds, st \in {Open, Done}}
  \cup {[memoId |-> One(In.m1), status |-> One(<<"a","n","s","w","e","r","e","d">>), owner |-> Undefined],
        [memoId |-> One(In.m2), status |-> One(<<"w","o","n","t","f","i","x">>), owner |-> One(<<"a","g","e","n","t">>)]}

\* what the handler returns
Found(memo, n) == [isError |-> FALSE, memo |-> memo, gatesUpdated |-> n]
NotFound(memoId) == [isError |-> TRUE, error |-> memoId]

\* the handler from the memo lookup on: p is splitDocument(markdown), k the place of the memo
updateFrom(p, k, c, now) ==
  IF k = 0
    THEN /\ reply' = NotFound(c.memoId)
         /\ parts' = p
         /\ UNCHANGED <<markdown, saved>>
    ELSE /\ parts' = updatedParts(p, k, c.status, c.owner, now)
         /\ markdown' = mergeDocument(parts')
         /\ saved' = Append(saved, markdown')
         /\ reply' = Found(parts'.memos[k], Len(parts'.gates))

\* the handler after readMarkdownFile and splitDocument
updateIn(p, c, now) == updateFrom(p, find(p.memos, c.memoId), c, now)

\* update_memo_status(file, memoId, status, owner); the clock reads the number of the write
UpdateMemoStatus ==
  /\ pc = "file"
  /\ Len(saved) < MaxCalls
  /\ \E c \in Calls :
       /\ call' = c
       /\ updateIn(splitDocument(markdown, Len(saved) + 1), c, Len(saved) + 1)
  /\ UNCHANGED <<pc, parts0, text0, resolvedIdx, panel, sync, webview, queue>>

InitGate ==
  /\ parts0 \in GateDocs
  /\ parts = parts0
  /\ markdown = mergeDocument(parts0)
  /\ text0 = markdown
  /\ pc = "file"
  /\ saved = << >>
  /\ call = Null /\ reply = Null /\ resolvedIdx = -1 /\ panel = Null /\ sync = Null /\ webview = Null /\ queue = Null

NextGate == UpdateMemoStatus

SpecGate == InitGate /\ [][NextGate]_vars


\* --- anchored memos and edits of the body ---

MaxInsert == 11

\* body lines: "aB" and "b!" are different lines with the same hash
Lines == [a |-> In.a, b |-> In.b, ab |-> <<"a","b">>, aB |-> <<"a","B">>, bBang |-> <<"b","!">>]

AnchorBodies ==
  {<<Lines.a>>,
   <<Lines.b, Lines.a>>,
   <<Lines.a, Lines.b, Lines.a>>,
   <<Lines.ab, Lines.b, Lines.a, Lines.b>>,
   <<Lines.b, Lines.aB>>}

\* anchors on line numbers in and out of range, with and without a range, or unreadable
MemoAnchors ==
  {AnchorOf(n, Lines.a) : n \in 0..3}
  \cup {AnchorOf(2, Lines.aB),
        One(<<"L","3",":","L","4","|">> \o hashLine(Lines.a)),
        EmptyStr}

MemoAnchorTexts == {EmptyStr, One(Lines.a), One(<<" ","a"," ">>), One(<<" ">>), One(<<"z","z">>)}

AnchorDocs ==
  {Bundle(b, <<Memo(In.m1, One(In.fix), at, an)>>, NoExtras) :
     b \in AnchorBodies, an \in MemoAnchors, at \in MemoAnchorTexts}

\* the lines an edit inserts: unrelated, equal to an anchored line, or colliding with one
InsertTexts == {Lines.b, Lines.a, Lines.bBang}

\* n copies of a line before the line with index at (after the last line when there is none)
inserted(lines, at, n, line) ==
  SubSeq(lines, 1, at) \o [k \in 1..n |-> line] \o SubSeq(lines, at + 1, Len(lines))

\* findMemoAnchorLine(lines, memo), as reinsertMemos calls it for the memo of the bundle
Resolve ==
  /\ pc \in {"anchored", "edited"}
  /\ resolvedIdx' = findMemoAnchorLine(parts.body, parts.memos[1])
  /\ pc' = "resolved"
  /\ UNCHANGED <<parts, markdown, parts0, text0, saved, call, reply, panel, sync, webview, queue>>

\* the user inserts lines into the body, once
InsertLines ==
  /\ pc = "resolved"
  /\ call = Null
  /\ \E at \in 0..Len(parts.body), n \in 1..MaxInsert, line \in InsertTexts :
       /\ parts' = [parts EXCEPT !.body = inserted(parts.body, at, n, line)]
       /\ call' = [at |-> at, n |-> n, line |-> line, was |-> resolvedIdx]
  /\ pc' = "edited"
  /\ UNCHANGED <<markdown, parts0, text0, saved, reply, resolvedIdx, panel, sync, webview, queue>>

InitAnchor ==
  /\ parts0 \in AnchorDocs
  /\ parts = parts0
  /\ pc = "anchored"
  /\ markdown = EmptyStr
  /\ text0 = EmptyStr
  /\ saved = << >>
  /\ call = Null /\ reply = Null /\ resolvedIdx = -1 /\ panel = Null /\ sync = Null /\ webview = Null /\ queue = Null

NextAnchor == Resolve \/ InsertLines

SpecAnchor == InitAnchor /\ [][NextAnchor]_vars


\* =========================================================================
\* Properties of the round trip (SpecMerge)
\* =========================================================================

\* how often the value x occurs in the sequence seq
CountOf(seq, x) == Cardinality({k \in 1..Len(seq) : seq[k] = x})

\* the same elements, each as often, in whatever order
SameElements(s1, s2) ==
  /\ Len(s1) = Len(s2)
  /\ \A k \in 1..Len(s1) : CountOf(s1, s1[k]) = CountOf(s2, s1[k])

\* the body up to trailing blank lines, and memos, gates, cursor and checkpoints field
\* for field (memos in whatever order)
SameContent(b, p) ==
  /\ TrimTrailingBlank(b.body) = TrimTrailingBlank(p.body)
  /\ SameElements(b.memos, p.memos)
  /\ b.gates = p.gates
  /\ b.cursor = p.cursor
  /\ b.checkpoints = p.checkpoints

\* the bundle in hand is split(merge(parts0))
RoundTripDone == parts0 # NoParts /\ pc = "parts" /\ Len(saved) = 1

\* C1 (as claimed): for every bundle, split(merge(bundle)) has the same body up to
\* trailing blank lines and the same memos, gates, cursor and checkpoints, field for
\* field, also when a text holds double quotes or line breaks and when anchorText is empty
C1_RoundTripIdentity == RoundTripDone => SameContent(parts0, parts)

\* the lines frontmatter and its separator take at the top of the output of merge
FrontmatterLines(p) ==
  IF p.frontmatter # EmptyStr THEN Len(TrimEndStr(p.frontmatter)) + 1 ELSE 0

\* the positions of the output where the lines of block start
Occurrences(out, block) ==
  {q \in 1..(Len(out) - Len(block) + 1) : SubSeq(out, q, q + Len(block) - 1) = block}

\* line q of the output belongs to the serialized block of some memo
InMemoBlock(out, memos, q) ==
  \E k \in 1..Len(memos) :
    \E o \in Occurrences(out, serializeMemoV2(memos[k])) :
      o <= q /\ q < o + Len(serializeMemoV2(memos[k]))

\* the number of lines before position q of the output that belong to no memo block
LinesBefore(out, memos, q) ==
  Cardinality({r \in 1..(q - 1) : ~InMemoBlock(out, memos, r)})

\* the number of body lines that stand before the block of memo in the output of merge:
\* those up to the line its anchor resolves to, or all of them when nothing resolves
BodyLinesAbove(p, memo) ==
  IF findMemoAnchorLine(p.body, memo) >= 0 THEN findMemoAnchorLine(p.body, memo) + 1
  ELSE Len(p.body)

\* C5: the output of merge holds the serialized block of each memo of the bundle exactly
\* once (as often as the bundle holds that memo), directly after the body line its anchor
\* resolves to, or after the last body line when nothing resolves
C5_NoMemoDroppedOrDuplicated ==
  pc = "text" =>
    \A k \in 1..Len(parts.memos) :
      LET block == serializeMemoV2(parts.memos[k])
          occ == Occurrences(markdown, block)
      IN /\ Cardinality(occ) =
              Cardinality({j \in 1..Len(parts.memos) : serializeMemoV2(parts.memos[j]) = block})
         /\ \A o \in occ :
              LinesBefore(markdown, parts.memos, o) =
                FrontmatterLines(parts) + BodyLinesAbove(parts, parts.memos[k])

\* C5 witness: a merged bundle with frontmatter, two memos on the same line and a memo
\* that resolves nowhere
C5_Witness ==
  /\ pc = "text"
  /\ parts.frontmatter # EmptyStr
  /\ \E j, k, u \in 1..Len(parts.memos) :
       /\ j # k
       /\ findMemoAnchorLine(parts.body, parts.memos[j]) >= 0
       /\ findMemoAnchorLine(parts.body, parts.memos[j]) =
            findMemoAnchorLine(parts.body, parts.memos[k])
       /\ findMemoAnchorLine(parts.body, parts.memos[u]) = -1


\* the blocks merge writes below the body: gates, checkpoints, cursor, in this order
TailBlocks(p) ==
  [g \in 1..Len(p.gates) |-> serializeGate(p.gates[g])]
  \o [c \in 1..Len(p.checkpoints) |-> serializeCheckpoint(p.checkpoints[c])]
  \o (IF p.cursor # Null THEN <<serializeCursor(p.cursor)>> ELSE << >>)

RECURSIVE LinesFrom(_, _)
\* the lines the blocks k, k+1, ... take, each with the blank line before it
LinesFrom(blocks, k) ==
  IF k > Len(blocks) THEN 0 ELSE 1 + Len(blocks[k]) + LinesFrom(blocks, k + 1)

\* where block k must start when the blocks close the output, whose last line break
\* leaves one empty line at its end
TailStart(out, blocks, k) == Len(out) - LinesFrom(blocks, k) + 1

\* memo j and memo k resolve to the same line (or both nowhere)
CoAnchored(p, j, k) ==
  findMemoAnchorLine(p.body, p.memos[j]) = findMemoAnchorLine(p.body, p.memos[k])

\* memo k is the next after memo j, in bundle order, on the line of memo j
NextOnLine(p, j, k) ==
  /\ j < k /\ CoAnchored(p, j, k)
  /\ \A m \in (j + 1)..(k - 1) : ~CoAnchored(p, j, m)

\* C11: in the output of merge the frontmatter comes first, then the body with its
\* memos, then every gate in bundle order, then every checkpoint in bundle order, then
\* the cursor last; memos that resolve to the same body line follow it in bundle order
C11_MergeOrder ==
  pc = "text" =>
    /\ parts.frontmatter # EmptyStr =>
         SubSeq(markdown, 1, Len(TrimEndStr(parts.frontmatter))) = TrimEndStr(parts.frontmatter)
    /\ \A k \in 1..Len(TailBlocks(parts)) :
         SubSeq(markdown, TailStart(markdown, TailBlocks(parts), k),
                TailStart(markdown, TailBlocks(parts), k) + Len(TailBlocks(parts)[k]) - 1)
           = TailBlocks(parts)[k]
    /\ \A k \in 1..Len(parts.memos) :
         \A o \in Occurrences(markdown, serializeMemoV2(parts.memos[k])) :
           /\ o > FrontmatterLines(parts)
           /\ o + Len(serializeMemoV2(parts.memos[k])) <= TailStart(markdown, TailBlocks(parts), 1)
    /\ \A j, k \in 1..Len(parts.memos) :
         NextOnLine(parts, j, k) =>
           \E o \in Occurrences(markdown, serializeMemoV2(parts.memos[j])) :
             (o + Len(serializeMemoV2(parts.memos[j])))
               \in Occurrences(markdown, serializeMemoV2(parts.memos[k]))

\* C11 witness: a merged bundle with frontmatter, two gates, two checkpoints, a cursor
\* and two different memos on the same body line
C11_Witness ==
  /\ pc = "text"
  /\ parts.frontmatter # EmptyStr
  /\ Len(parts.gates) = 2 /\ Len(parts.checkpoints) = 2 /\ parts.cursor # Null
  /\ \E j, k \in 1..Len(parts.memos) :
       /\ NextOnLine(parts, j, k)
       /\ parts.memos[j] # parts.memos[k]
       /\ findMemoAnchorLine(parts.body, parts.memos[j]) >= 0


\* the sections of the output of merge: frontmatter, body with memos, then the blocks
Sections(p) ==
  (IF p.frontmatter # EmptyStr THEN <<TrimEndStr(p.frontmatter)>> ELSE << >>)
  \o <<reinsertMemos(p.body, p.memos)>>
  \o TailBlocks(p)

\* the text ends with a line break and with one only
EndsWithOneNewline(out) ==
  /\ Len(out) >= 2 /\ out[Len(out)] = << >>
  /\ Len(out) >= 3 => out[Len(out) - 1] # << >>

\* section k stands where the sections after it, one blank line before each, leave it
SectionInPlace(out, secs, k) ==
  /\ SubSeq(out, TailStart(out, secs, k), TailStart(out, secs, k) + Len(secs[k]) - 1) = secs[k]
  /\ k > 1 => out[TailStart(out, secs, k) - 1] = << >>
  /\ k = 1 => TailStart(out, secs, k) = 1

\* the body is as split leaves it: no blank line at its end
BodyTrimmed(p) == joinLines(TrimTrailingBlank(p.body)) = p.body

\* C12 (as claimed): for every bundle, also one with an empty body, the output of merge
\* ends with exactly one newline and any two consecutive sections are separated by
\* exactly one blank line
C12_OutputShape ==
  (pc = "text" /\ BodyTrimmed(parts)) =>
    /\ EndsWithOneNewline(markdown)
    /\ \A k \in 1..Len(Sections(parts)) : SectionInPlace(markdown, Sections(parts), k)


\* =========================================================================
\* Properties of opening and saving a text (SpecSave)
\* =========================================================================

\* C2 (as claimed): for every text whose comments are all in canonical form the second
\* save writes the first one again, character for character: merge(split(merge(split(text))))
\* equals merge(split(text)), wherever the memos stand
C2_SaveIdempotent ==
  (text0 \in CanonicalTexts /\ parts0 = NoParts /\ Len(saved) = 2) => saved[2] = saved[1]

\* the bundle in hand is split(text0)
FirstSplitDone == parts0 = NoParts /\ pc = "parts" /\ Len(saved) = 0

\* the lines that are comments splitDocument does not recognize, in order
UnknownOf(lines) ==
  filter(lines, [k \in 1..Len(lines) |-> lines[k] \in UnknownComments])

\* C3 (as claimed): every line of the input that is a comment split does not recognize
\* appears unchanged and in the same relative order in split(text).body, also between
\* the opener and closer of a recognized block or after an opener that is never closed
C3_TolerantParsing == FirstSplitDone => UnknownOf(parts.body) = UnknownOf(text0)

\* the position of the first block opener in the text
OpenerAt(text) == firstOr({k \in 1..Len(text) : Trim(text[k]) \in Openers}, 0)

\* the text from its first opener on, without the blank lines at its end
FromOpener(text) == TrimTrailingBlank(SubSeq(text, OpenerAt(text), Len(text)))

\* C4 (as claimed): when a block opener has no closer before the end of the document,
\* split produces no memo, gate or cursor from it and keeps the opener line and every
\* following line in body
C4_UnclosedOpenerIsBody ==
  (text0 \in UnclosedTexts /\ FirstSplitDone) =>
    /\ parts.memos = << >> /\ parts.gates = << >> /\ parts.cursor = Null
    /\ Len(parts.body) >= Len(FromOpener(text0))
    /\ SubSeq(parts.body, Len(parts.body) - Len(FromOpener(text0)) + 1, Len(parts.body))
         = FromOpener(text0)


\* =========================================================================
\* Properties of the gates (SpecGate)
\* =========================================================================

\* the last call found its memo and wrote the file: parts is the bundle it wrote
Succeeded == reply # Null /\ ~reply.isError

Blocked == One(<<"b","l","o","c","k","e","d">>)
Proceed == One(<<"p","r","o","c","e","e","d">>)

\* the rule as claimed: every memo with a listed id counts
RuleAnyMemo(gate, memos) ==
  IF \E k \in 1..Len(memos) :
       (\E j \in 1..Len(gate.blockedBy) : gate.blockedBy[j] = memos[k].id) /\ memos[k].status = Open
    THEN Blocked
  ELSE IF \A k \in 1..Len(memos) : memos[k].status # Open THEN Done
  ELSE Proceed

\* C6 (as claimed): evaluate(gate, memos) returns blocked exactly when at least one memo
\* whose id is listed in gate.blockedBy has status open, also when several memos share
\* that id; otherwise done exactly when no memo of the list is open; otherwise proceed
C6_GateRule ==
  Succeeded => \A g \in 1..Len(parts.gates) :
                 parts.gates[g].status = RuleAnyMemo(parts.gates[g], parts.memos)

\* memo k is the first of the list with its id
IsFirstWithId(memos, k) == \A i \in 1..(k - 1) : memos[i].id # memos[k].id

\* the rule with first-match lookups: of the memos sharing an id only the first counts
RuleFirstMemo(gate, memos) ==
  IF \E k \in 1..Len(memos) :
       /\ \E j \in 1..Len(gate.blockedBy) : gate.blockedBy[j] = memos[k].id
       /\ IsFirstWithId(memos, k)
       /\ memos[k].status = Open
    THEN Blocked
  ELSE IF \A k \in 1..Len(memos) : memos[k].status # Open THEN Done
  ELSE Proceed

\* C6 (amended): evaluate(gate, memos) returns blocked exactly when, for at least one id
\* listed in gate.blockedBy, the first memo of the list with that id has status open;
\* otherwise done exactly when no memo of the list is open; otherwise proceed
C6_GateRuleFirstMatch ==
  Succeeded => \A g \in 1..Len(parts.gates) :
                 parts.gates[g].status = RuleFirstMemo(parts.gates[g], parts.memos)

\* C6 witness: two memos share a listed id, the first is settled and the second open,
\* and the gate was evaluated to proceed
C6_Witness ==
  /\ Succeeded
  /\ Len(parts.memos) >= 2
  /\ parts.memos[1].id = parts.memos[2].id
  /\ parts.memos[1].status = Done /\ parts.memos[2].status = Open
  /\ parts.gates[1].blockedBy = <<parts.memos[1].id>>
  /\ parts.gates[1].status = Proceed

\* every memo whose id the gate lists is settled
AllSettled(gate, memos) ==
  \A k \in 1..Len(memos) :
    (\E j \in 1..Len(gate.blockedBy) : gate.blockedBy[j] = memos[k].id) => memos[k].status # Open

\* the call is about a memo the gate does not list
Outside(gate, c) == \A j \in 1..Len(gate.blockedBy) : gate.blockedBy[j] # c.memoId

\* C7: once every memo listed in a gate's blockedBy has a non-open status the gate
\* evaluates to proceed or done, and a later status change of a memo outside blockedBy
\* never makes it blocked again
C7_GateMonotone ==
  [][(reply' # Null /\ ~reply'.isError) =>
       \A g \in 1..Len(parts'.gates) :
         /\ AllSettled(parts'.gates[g], parts'.memos) => parts'.gates[g].status \in {Proceed, Done}
         /\ (AllSettled(parts.gates[g], parts.memos) /\ Outside(parts.gates[g], call'))
              => parts'.gates[g].status # Blocked]_vars

\* C7 witness: a gate that started blocked, whose listed memos are all settled by now,
\* stays unblocked after a memo outside its blockedBy was opened again
C7_Witness ==
  /\ Succeeded
  /\ parts0.gates[1].status = Blocked
  /\ parts0.gates[1].blockedBy # << >>
  /\ AllSettled(parts.gates[1], parts.memos)
  /\ Outside(parts.gates[1], call) /\ call.status = Open
  /\ parts.gates[1].status = Proceed


\* =========================================================================
\* Properties of the anchor resolver (SpecAnchor)
\* =========================================================================

\* the memo of the bundle and what its anchor says
TheMemo == parts.memos[1]
AnchorParsed == TheMemo.anchor # EmptyStr /\ anchorMatch(TheMemo.anchor).ok
AnchorLineNum == parseInt(anchorMatch(TheMemo.anchor).caps[1][1]) - 1
AnchorHash == anchorMatch(TheMemo.anchor).caps[2]

\* line k (0-based) of the lines has the hash of the anchor
HasAnchorHash(lines, k) == One(hashLine(lines[k + 1])) = AnchorHash

Dist(k) == IF k >= AnchorLineNum THEN k - AnchorLineNum ELSE AnchorLineNum - k

\* the lines with the anchor's hash at distance 1..10 from the anchor's line
Nearby ==
  {k \in 0..(Len(parts.body) - 1) : Dist(k) >= 1 /\ Dist(k) <= 10 /\ HasAnchorHash(parts.body, k)}

ExactHit ==
  AnchorLineNum >= 0 /\ AnchorLineNum < Len(parts.body) /\ HasAnchorHash(parts.body, AnchorLineNum)

\* C8: for an anchor L<n>|<hash> the resolver returns n-1 when that line is in range and
\* its hash matches; otherwise the matching line at the smallest distance d in 1..10 from
\* n-1, n-1-d before n-1+d at equal distance; a line further than 10 away is never
\* returned by the hash steps (without an anchorText the memo is then unresolved)
C8_HashResolutionOrder ==
  (pc = "resolved" /\ AnchorParsed) =>
    IF ExactHit THEN resolvedIdx = AnchorLineNum
    ELSE IF Nearby # {}
      THEN /\ resolvedIdx \in Nearby
           /\ \A k \in Nearby : Dist(resolvedIdx) <= Dist(k)
           /\ \A k \in Nearby : Dist(k) = Dist(resolvedIdx) => resolvedIdx <= k
    ELSE TheMemo.anchorText = EmptyStr => resolvedIdx = -1

\* C8 witness: the anchor's line does not match, the lines at the same distance above and
\* below it both do, and the one above is returned
C8_Witness ==
  /\ pc = "resolved" /\ AnchorParsed /\ ~ExactHit
  /\ \E k \in Nearby : k > AnchorLineNum /\ (AnchorLineNum - (k - AnchorLineNum)) \in Nearby
                       /\ resolvedIdx = AnchorLineNum - (k - AnchorLineNum)

\* the first line (0-based) that contains the needle, -1 when no line does
FirstContaining(lines, needle) ==
  IF \E k \in 1..Len(lines) : Includes(lines[k], needle)
    THEN (CHOOSE k \in 1..Len(lines) :
            Includes(lines[k], needle) /\ \A j \in 1..(k - 1) : ~Includes(lines[j], needle)) - 1
    ELSE -1

\* the hash steps find a line: the anchor reads and a line within 10 lines has its hash
HashFinds == AnchorParsed /\ (ExactHit \/ Nearby # {})

\* the resolved line has the anchor's hash and is at most 10 lines from the anchor's line
ByHash ==
  /\ resolvedIdx >= 0
  /\ HasAnchorHash(parts.body, resolvedIdx)
  /\ Dist(resolvedIdx) <= 10

\* C9 (as claimed): with both an anchor and an anchorText the anchorText search is used
\* only if the anchor found no line; it then returns the first line, top to bottom, that
\* contains anchorText; a non-resolving anchor with an empty anchorText is unresolved
C9_AnchorPriority ==
  (pc = "resolved" /\ TheMemo.anchor # EmptyStr) =>
    IF HashFinds THEN ByHash
    ELSE IF TheMemo.anchorText # EmptyStr
      THEN resolvedIdx = FirstContaining(parts.body, TheMemo.anchorText)
    ELSE resolvedIdx = -1

\* C9 (amended): as claimed, but the line returned by the anchorText search is the first
\* line that contains anchorText with the whitespace at its ends removed
C9_AnchorPriorityTrimmed ==
  (pc = "resolved" /\ TheMemo.anchor # EmptyStr) =>
    IF HashFinds THEN ByHash
    ELSE IF TheMemo.anchorText # EmptyStr
      THEN resolvedIdx = FirstContaining(parts.body, TrimStr(TheMemo.anchorText))
    ELSE resolvedIdx = -1

\* C9 witness: the anchor finds no line, the anchorText has blanks around it, and the
\* line found holds the trimmed text only
C9_Witness ==
  /\ pc = "resolved" /\ TheMemo.anchor # EmptyStr /\ ~HashFinds
  /\ TheMemo.anchorText # TrimStr(TheMemo.anchorText)
  /\ TrimStr(TheMemo.anchorText) # EmptyStr
  /\ resolvedIdx >= 0
  /\ ~Includes(parts.body[resolvedIdx + 1], TheMemo.anchorText)

\* the anchor matched line call.was of the body exactly before the edit, and the edit
\* inserted its lines, none equal to that line, before it
PureInsertion ==
  /\ pc = "resolved" /\ call # Null
  /\ AnchorParsed
  /\ call.was = AnchorLineNum
  /\ AnchorLineNum >= 0 /\ AnchorLineNum < Len(parts0.body)
  /\ HasAnchorHash(parts0.body, AnchorLineNum)
  /\ call.at <= call.was
  /\ call.line # parts0.body[call.was + 1]

\* the hash steps of the resolver returned the line that was shifted by the edit
ShiftedByHash ==
  /\ resolvedIdx = call.was + call.n
  /\ anchorHashLine(parts.body, TheMemo) = call.was + call.n

\* C10 (as claimed): if a memo's anchor matched line i exactly and N lines, none equal to
\* that line's text, are inserted before line i, the resolver returns i+N through the
\* hash probe, for every N
C10_StableUnderInsertion == PureInsertion => ShiftedByHash

\* no line the probe looks at before line i+N has the anchor's hash: the lines at a
\* distance below N from line i, and line i-N
ProbePathClear ==
  \A k \in (call.was - call.n)..(call.was + call.n - 1) :
    (k >= 0 /\ k < Len(parts.body)) => ~HasAnchorHash(parts.body, k)

\* C10 (amended): if a memo's anchor matched line i exactly and N <= 10 lines, none equal
\* to that line's text, are inserted before line i, and no line of the edited body at a
\* distance below N from line i, nor line i-N, has the anchor's hash, the resolver
\* returns i+N through the hash probe
C10_StableUnderShortInsertion ==
  (PureInsertion /\ call.n <= 10 /\ ProbePathClear) => ShiftedByHash

\* C10 witness: ten lines were inserted before the anchored line, which was not the
\* first of the body, and the resolver found it ten lines further down
C10_Witness ==
  /\ PureInsertion /\ call.n = 10 /\ ProbePathClear
  /\ call.was >= 1
  /\ resolvedIdx = call.was + 10


\* =========================================================================
\* Properties of the old memo dialects (SpecSave)
\* =========================================================================

\* a line of a comment
IsCommentLine(line) == StartsWith(Trim(line), <<"<","!","-","-">>)

\* the lines of the frontmatter at the top of the text
FrontLen(text) ==
  IF Len(text) >= 3 /\ SubSeq(text, 1, 3) = FrontmatterIn THEN 3 ELSE 0

\* the lines where a memo of an old dialect starts, top to bottom
IsOldMemoStart(line) == line \in V3Memos \/ (\E b \in LegacyBlocks : line = b[1])
OldMemoStarts(text) ==
  filter([q \in 1..Len(text) |-> q], [q \in 1..Len(text) |-> IsOldMemoStart(text[q])])

\* the body lines of the text above its line q, and how many of them up to the last
\* one that is not blank (0 when all are blank)
BodyAbove(text, q) ==
  filter(SubSeq(text, FrontLen(text) + 1, q - 1),
         [r \in 1..(q - 1 - FrontLen(text)) |-> ~IsCommentLine(text[FrontLen(text) + r])])
LastNonBlank(lines) == firstOr({0 - j : j \in {i \in 1..Len(lines) : ~IsBlank(lines[i])}}, 0)

\* the anchor a memo below these lines is to carry: on the i-th line when that is the
\* nearest non-blank one (i = 0 - z), none when z = 0
AnchorOn(lines, z) == IF z = 0 THEN EmptyStr ELSE AnchorOf(0 - z, lines[0 - z])

\* the memo has the anchor of the nearest non-blank line above and resolves to it, exactly
DerivedFrom(body, memo, above, z) ==
  /\ memo.anchor = AnchorOn(above, z)
  /\ z # 0 =>
       /\ findMemoAnchorLine(body, memo) = (0 - z) - 1
       /\ body[0 - z] = above[0 - z]
       /\ hashAt(body, (0 - z) - 1, One(hashLine(above[0 - z])))

\* C13: for every memo read from the single-line or the legacy block dialect, split
\* records the anchor L<i+1>|hash(line i) of the nearest non-blank body line accumulated
\* before the memo (the empty anchor when there is none), and on the body of split(text)
\* that anchor resolves by exact match to that same line
C13_DerivedAnchor ==
  (FirstSplitDone /\ text0 \in MigrationTexts) =>
    /\ Len(parts.memos) = Len(OldMemoStarts(text0))
    /\ \A k \in 1..Len(parts.memos) :
         DerivedFrom(parts.body, parts.memos[k],
                     BodyAbove(text0, OldMemoStarts(text0)[k]),
                     LastNonBlank(BodyAbove(text0, OldMemoStarts(text0)[k])))

\* C13 witness: a legacy block below two lines and two blank lines was read, and its
\* anchor is that of the second line
C13_Witness ==
  /\ FirstSplitDone /\ text0 \in MigrationTexts
  /\ Len(parts.memos) >= 1
  /\ Len(text0) >= 5
  /\ text0[5] = <<"<","!","-","-"," ","@","m","e","m","o"," ","i","d","=","\"","m","1","\""," ","c","o","l","o","r","=","\"","r","e","d","\""," ","-","-",">">>
  /\ parts.memos[1].anchor = AnchorOf(2, In.world)


\* --- checkpoints (shared/checkpoint.ts) ---

RECURSIVE Flat(_)
\* the JavaScript string of a text: its lines with a line feed between them
Flat(s) == IF Len(s) = 1 THEN s[1] ELSE s[1] \o <<"NL">> \o Flat(Tail(s))

\* generateBodyHash(body)
generateBodyHash(body) == hashLine(Flat(body))

\* /<!-- USER_MEMO\s+id="[^"]+"(?:\s+color="([^"]+)")?(?:\s+status="[^"]+")?\s*:/g
\* (the engine captures every quoted value: the colour, m[1] of the source, is caps[2])
MEMO_COUNT_RE ==
  <<<<"lit", <<"<","!","-","-"," ","U","S","E","R","_","M","E","M","O">>>>,
    <<"\\s+">>,
    <<"lit", <<"i","d","=">>>>,
    <<"quoted", 1>>,
    <<"opt", <<<<"\\s+">>,
              <<"lit", <<"c","o","l","o","r","=">>>>,
              <<"quoted", 1>>>>, 1>>,
    <<"opt", <<<<"\\s+">>,
              <<"lit", <<"s","t","a","t","u","s","=">>>>,
              <<"quoted", 1>>>>, 1>>,
    <<"\\s*">>,
    <<"lit", <<":">>>>>>

\* markRe and eqRe can only match a string that holds <mark or ==
HasInlineMarkup(t) ==
  IndexFrom(t, 1, <<"<","m","a","r","k">>) # 0 \/ IndexFrom(t, 1, <<"=","=">>) # 0

RECURSIVE memoColors(_, _)

\* one turn of the loop: m is the match tried at the occurrence q of the opening literal
memoColorsAt(t, q, m) ==
  IF m.ok THEN <<OrElse(m.caps[2], One(<<"r","e","d">>))>> \o memoColors(t, m.end)
  ELSE memoColors(t, q + 1)

\* while ((m = memoRe.exec(markdown)) !== null): m[1] || 'red' of every match from p on
memoColors(t, p) ==
  IF IndexFrom(t, p, <<"<","!","-","-"," ","U","S","E","R","_","M","E","M","O">>) = 0 THEN << >>
  ELSE memoColorsAt(t, IndexFrom(t, p, <<"<","!","-","-"," ","U","S","E","R","_","M","E","M","O">>),
                    exec(MEMO_COUNT_RE, t, IndexFrom(t, p, <<"<","!","-","-"," ","U","S","E","R","_","M","E","M","O">>), << >>))

\* how many of the colours are c
colorCount(colors, c) == Cardinality({i \in 1..Len(colors) : colors[i] = One(c)})

\* the three counters after the first loop over the colours found
countsOf(colors) ==
  [fixes |-> colorCount(colors, <<"r","e","d">>),
   questions |-> colorCount(colors, <<"b","l","u","e">>),
   highlights |-> Len(colors) - colorCount(colors, <<"r","e","d">>) - colorCount(colors, <<"b","l","u","e">>)]

\* getAnnotationCounts(markdown) for a markdown without inline highlight markup, on
\* which the loops over markRe and eqRe find nothing
getAnnotationCounts(md) == countsOf(memoColors(Flat(md), 1))

\* line.match(/^## (.+)/)
IsH2(line) == StartsWithAt(line, 1, <<"#","#"," ">>) /\ Len(line) >= 4

\* hasAnnotation for a line without inline highlight markup
hasAnnotation(line) == LineIncludes(line, <<"<","!","-","-"," ","U","S","E","R","_","M","E","M","O">>)

RECURSIVE sectionsFrom(_, _, _, _)
\* the loop of getSectionsWithAnnotations from line i on
sectionsFrom(lines, i, currentSection, sections) ==
  IF i > Len(lines) THEN sections
  ELSE IF IsH2(lines[i])
    THEN sectionsFrom(lines, i + 1, One(Trim(DropFirst(lines[i], 3))), sections)
  ELSE IF currentSection = EmptyStr THEN sectionsFrom(lines, i + 1, currentSection, sections)
  ELSE IF hasAnnotation(lines[i]) /\ \A k \in 1..Len(sections) : sections[k] # currentSection
    THEN sectionsFrom(lines, i + 1, currentSection, Append(sections, currentSection))
  ELSE sectionsFrom(lines, i + 1, currentSection, sections)

\* getSectionsWithAnnotations(markdown)
getSectionsWithAnnotations(md) == sectionsFrom(md, 1, EmptyStr, << >>)

\* the checkpoint record createCheckpoint builds from the counts and a nanoid6() result
newCheckpoint(counts, sectionsReviewed, note, nano, now) ==
  [id |-> One(<<"c","k","p","t","_">> \o nano), timestamp |-> toISOString(now), note |-> note,
   fixes |-> counts.fixes, questions |-> counts.questions, highlights |-> counts.highlights,
   sectionsReviewed |-> sectionsReviewed]

\* the comment written in place of the document instead of below it
appended_alone(md, comment) == Cat(comment, << <<>>, <<>> >>)

\* trimmed + '\n\n' + comment + '\n'
appended(md, comment) ==
  Cat(Cat(Cat(TrimEndStr(md), << <<>>, <<>>, <<>> >>), comment), << <<>>, <<>> >>)

\* the record createCheckpoint returns
checkpointResult(md, checkpoint) ==
  [checkpoint |-> checkpoint, updatedMarkdown |-> appended(md, serializeCheckpoint(checkpoint))]

\* createCheckpoint(markdown, note), nano being what nanoid6() returns
createCheckpoint(md, note, nano, now) ==
  checkpointResult(md,
    newCheckpoint(getAnnotationCounts(md), getSectionsWithAnnotations(md), note, nano, now))


\* --- the tools on one file ---

\* the arguments of update_cursor: taskId, step, nextAction
CursorCalls ==
  {[taskId |-> One(In.task), step |-> One(In.step), nextAction |-> One(In.go)],
   [taskId |-> One(<<"T","2">>), step |-> One(<<"2","/","2">>), nextAction |-> One(In.sayHi)]}

\* the cursor the handler puts into the bundle p
cursorFrom(p, c, now) ==
  [taskId |-> c.taskId, step |-> c.step, nextAction |-> c.nextAction,
   lastSeenHash |-> One(generateBodyHash(p.body)), updatedAt |-> toISOString(now)]

\* the handler from mergeDocument on: p is the bundle with the new cursor
cursorWritten(p) ==
  /\ parts' = p
  /\ markdown' = mergeDocument(p)
  /\ saved' = Append(saved, markdown')
  /\ reply' = [cursor |-> p.cursor]

\* the handler after readMarkdownFile and splitDocument
cursorIn(p, c, now) == cursorWritten([p EXCEPT !.cursor = cursorFrom(p, c, now)])

\* update_cursor(file, taskId, step, nextAction)
UpdateCursor ==
  /\ pc = "file"
  /\ Len(saved) < MaxCalls
  /\ \E c \in CursorCalls :
       /\ call' = c
       /\ cursorIn(splitDocument(markdown, Len(saved) + 1), c, Len(saved) + 1)
  /\ UNCHANGED <<pc, parts0, text0, resolvedIdx, panel, sync, webview, queue>>

\* the notes of create_checkpoint: with double quotes, with a line break
Notes == {One(In.sayHi), <<In.a, In.b>>}
\* what nanoid6() may return
Nanoids == {<<"a","b","c","1","2","3">>, <<"0","0","0","0","0","0">>}

\* the handler from writeMarkdownFile on: r is what createCheckpoint returned
checkpointWritten(r) ==
  /\ markdown' = r.updatedMarkdown
  /\ saved' = Append(saved, markdown')
  /\ reply' = [checkpoint |-> r.checkpoint]

\* create_checkpoint(file, note)
CreateCheckpoint ==
  /\ pc = "file"
  /\ Len(saved) < MaxCalls
  /\ ~HasInlineMarkup(Flat(markdown))
  /\ \E note \in Notes, nano \in Nanoids :
       /\ call' = [note |-> note]
       /\ checkpointWritten(createCheckpoint(markdown, note, nano, Len(saved) + 1))
  /\ UNCHANGED <<pc, parts, parts0, text0, resolvedIdx, panel, sync, webview, queue>>

\* a reviewed section in the single-line dialect: a red and a blue memo under a heading
V3Doc ==
  <<<<"#","#"," ","A","u","t","h">>,
    In.hello,
    <<"<","!","-","-"," ","U","S","E","R","_","M","E","M","O"," ","i","d","=","\"","m","1","\""," ","c","o","l","o","r","=","\"","r","e","d","\""," ",":"," ","f","i","x"," ","-","-",">">>,
    In.world,
    <<"<","!","-","-"," ","U","S","E","R","_","M","E","M","O"," ","i","d","=","\"","m","2","\""," ","c","o","l","o","r","=","\"","b","l","u","e","\""," ","s","t","a","t","u","s","=","\"","d","o","n","e","\""," ",":"," ","s","a","y"," ","\"","h","i","\""," ","-","-",">">>,
    <<>>>>

\* a saved document whose gate reads done while the memo it waits for is open, with a
\* second cursor block written below it by hand
StaleDoc ==
  mergeDocument(
    Bundle(<<<<"#","#"," ","A","u","t","h">>, In.hello>>, <<MemoIn(In.m1, Open)>>,
           [frontmatter |-> <<<<"-","-","-">>, In.title, <<"-","-","-">>, <<>>>>,
            gates |-> <<[GateOn(In.g1, <<One(In.m1)>>) EXCEPT !.status = Done]>>,
            checkpoints |-> <<CheckpointIn(One(In.go))>>,
            cursor |-> CursorIn(One(In.go))]))
  \o serializeCursor([CursorIn(One(In.fix)) EXCEPT !.taskId = One(<<"T","9">>)])
  \o << <<>> >>

ToolDocs == {V3Doc, StaleDoc}

\* the update_memo_status calls made next to the other tools
ToolMemoCalls ==
  {[memoId |-> One(In.m1), status |-> Done, owner |-> Undefined],
   [memoId |-> One(In.m2), status |-> Open, owner |-> Undefined]}

InitTools ==
  /\ markdown \in ToolDocs
  /\ text0 = markdown
  /\ parts0 = NoParts /\ parts = NoParts
  /\ pc = "file"
  /\ saved = << >>
  /\ call = Null /\ reply = Null /\ resolvedIdx = -1 /\ panel = Null /\ sync = Null /\ webview = Null /\ queue = Null

NextTools ==
  \/ (call' \in ToolMemoCalls /\ UpdateMemoStatus)
  \/ UpdateCursor
  \/ CreateCheckpoint

SpecTools == InitTools /\ [][NextTools]_vars


\* --- properties of the tools ---

\* the last call was update_cursor, create_checkpoint, update_memo_status
LastWasCursor == call # Null /\ "taskId" \in DOMAIN call
LastWasCheckpoint == call # Null /\ "note" \in DOMAIN call
LastWasMemoStatus == call # Null /\ "memoId" \in DOMAIN call

\* the number of lines that open a cursor block
CursorBlocks(text) == Cardinality({i \in 1..Len(text) : test(CURSOR_START_RE, text[i])})

\* the cursor read back from the text has the three fields of the call c
ReadsBack(cursor, c) ==
  /\ cursor # Null
  /\ cursor.taskId = c.taskId /\ cursor.step = c.step /\ cursor.nextAction = c.nextAction

\* C14: after an update_cursor call the document holds exactly one cursor block, and the
\* cursor split reads from it has the taskId, step and nextAction of that call
C14_CursorSingleton ==
  LastWasCursor =>
    /\ CursorBlocks(markdown) = 1
    /\ ReadsBack(splitDocument(markdown, 1).cursor, call)


RECURSIVE IsSubseq(_, _)
\* the elements of a are in b, in the same order
IsSubseq(a, b) ==
  IF a = << >> THEN TRUE
  ELSE IF b = << >> THEN FALSE
  ELSE IF Head(a) = Head(b) THEN IsSubseq(Tail(a), Tail(b))
  ELSE IsSubseq(a, Tail(b))

\* the last call wrote the document (update_memo_status writes nothing for an unknown id)
LastWrote == Len(saved) >= 1 /\ ~("isError" \in DOMAIN reply /\ reply.isError)

\* the document before the last write
BeforeLastWrite == IF Len(saved) >= 2 THEN saved[Len(saved) - 1] ELSE text0

\* from the checkpoints old to the checkpoints new: every old one is still there, with
\* the same fields and in the same order, and at most one came, by create_checkpoint
OnlyAppended(old, new) ==
  /\ IsSubseq(old, new)
  /\ Len(new) <= Len(old) + 1
  /\ (Len(new) > Len(old) /\ LastWrote) => LastWasCheckpoint

\* C15: every call of create_checkpoint, update_memo_status or update_cursor leaves each
\* checkpoint of the document in the document, with the same id, timestamp, note, counts
\* and section list and in the same relative order; only create_checkpoint adds one
C15_CheckpointsAppendOnly ==
  Len(saved) >= 1 =>
    OnlyAppended(splitDocument(BeforeLastWrite, 1).checkpoints,
                 splitDocument(saved[Len(saved)], 1).checkpoints)

\* a document that had a checkpoint, got a second one from create_checkpoint and was then
\* rewritten by update_cursor
C15_Witness ==
  /\ text0 = StaleDoc /\ Len(saved) = 2 /\ LastWasCursor
  /\ Len(splitDocument(markdown, 1).checkpoints) = 2
  /\ splitDocument(markdown, 1).checkpoints[1] = splitDocument(text0, 1).checkpoints[1]


\* the text is the text before (n lines once its trailing whitespace is cut), one blank
\* line, and one line that is a checkpoint comment; the file ends after it
OneLineAppended(text, before, n) ==
  /\ Len(text) = n + 3
  /\ SubSeq(text, 1, n) = before
  /\ text[n + 1] = << >>
  /\ test(CHECKPOINT_RE, text[n + 2])
  /\ text[n + 3] = << >>

\* the checkpoint carries the counts and the sections of the text
CountsOfText(cp, text) ==
  /\ cp.fixes = getAnnotationCounts(text).fixes
  /\ cp.questions = getAnnotationCounts(text).questions
  /\ cp.highlights = getAnnotationCounts(text).highlights
  /\ cp.sectionsReviewed = getSectionsWithAnnotations(text)

\* C16: createCheckpoint(text, note) returns a checkpoint with the counts and the reviewed
\* sections of text, and a text that is the input without trailing whitespace, one blank
\* line and the single checkpoint line, nothing before that line changed
C16_CheckpointAppended ==
  (LastWasCheckpoint /\ Len(saved) >= 1) =>
    /\ CountsOfText(reply.checkpoint, BeforeLastWrite)
    /\ OneLineAppended(markdown, TrimEndStr(BeforeLastWrite), Len(TrimEndStr(BeforeLastWrite)))


\* how many of the memos have the type t
TypeCount(memos, t) == Cardinality({k \in 1..Len(memos) : memos[k].type = One(t)})

\* the counts of the checkpoint are the numbers of fix, question and highlight memos
CountsAreMemos(cp, memos) ==
  /\ cp.fixes = TypeCount(memos, <<"f","i","x">>)
  /\ cp.questions = TypeCount(memos, <<"q","u","e","s","t","i","o","n">>)
  /\ cp.highlights = TypeCount(memos, <<"h","i","g","h","l","i","g","h","t">>)

\* C17: for a text without inline highlight markup the three counts of the counter are
\* the numbers of fix, question and highlight memos that split reads from the text, for
\* memo comments on one line and on several lines alike
C17_CountsMatchMemos ==
  (LastWasCheckpoint /\ Len(saved) >= 1) =>
    CountsAreMemos(reply.checkpoint, splitDocument(BeforeLastWrite, 1).memos)


\* every gate of the bundle has the status the evaluator gives it
Coherent(p) ==
  \A k \in 1..Len(p.gates) : p.gates[k].status = evaluateGate(p.gates[k], p.memos)

\* C18: in the document update_memo_status or update_cursor has written, the status of
\* every gate is what the evaluator computes from the gate and the memos of that document
C18_GateCacheCoherent ==
  (LastWrote /\ (LastWasCursor \/ LastWasMemoStatus)) => Coherent(splitDocument(markdown, 1))


\* --- forward migration ---

\* the bundle in hand is split(merge(split(text0)))
SecondSplitDone == parts0 = NoParts /\ pc = "parts" /\ Len(saved) = 1

\* id, colour, status and text of each memo
Contents(memos) ==
  [k \in 1..Len(memos) |-> <<memos[k].id, memos[k].color, memos[k].status, memos[k].text>>]

\* the same memos by id, colour, status and text
SameMemoContent(a, b) == SameElements(Contents(a), Contents(b))

\* C20: for every text with single-line memos or legacy blocks the memos of
\* split(merge(split(text))) have the ids, colours, statuses and texts of the memos of
\* split(text), also for a legacy block with several inner lines and a single-line memo
\* with double quotes
C20_MigrationKeepsMemos ==
  (SecondSplitDone /\ text0 \in MigrationTexts) =>
    SameMemoContent(splitDocument(text0, 1).memos, parts.memos)

\* the memo texts of the bundle hold neither a double quote nor a line break
PlainMemoTexts(p) ==
  \A k \in 1..Len(p.memos) :
    Len(p.memos[k].text) = 1 /\ ~LineIncludes(p.memos[k].text[1], <<"\"">>)


\* --- the panel (panel-provider.ts) and the sync controller (sync-controller.ts) ---

\* the fields of a panel provider after construction
NewPanel ==
  [editVersion |-> 0, lastWebviewEditVersion |-> 0,
   preservedFrontmatter |-> EmptyStr, preservedGates |-> << >>,
   preservedCheckpoints |-> << >>, preservedCursor |-> Null]

\* sendDocumentToWebview(document): the fields it sets, p being splitDocument(raw)
sendDocumentToWebview(pn, p) ==
  [pn EXCEPT !.preservedFrontmatter = p.frontmatter, !.preservedGates = p.gates,
             !.preservedCheckpoints = p.checkpoints, !.preservedCursor = p.cursor]

\* the change listener of the sync controller: nothing after an edit of the webview,
\* handleDocumentUpdate otherwise
syncChangeHandler(pn, raw, now) ==
  IF pn.lastWebviewEditVersion = pn.editVersion THEN pn
  ELSE sendDocumentToWebview(pn, splitDocument(raw, now))

\* the change listener of the panel
panelChangeHandler(pn, raw, now) ==
  IF pn.lastWebviewEditVersion = pn.editVersion THEN [pn EXCEPT !.lastWebviewEditVersion = 0]
  ELSE sendDocumentToWebview(pn, splitDocument(raw, now))

\* onDidChangeTextDocument: the listeners in the order of their registration, the sync
\* controller's (made in activate) before the panel's (made when the view is resolved)
changed(pn, raw, now) == panelChangeHandler(syncChangeHandler(pn, raw, now), raw, now)

\* editVersion += 1; lastWebviewEditVersion = myVersion
bumped(pn) ==
  [pn EXCEPT !.editVersion = pn.editVersion + 1, !.lastWebviewEditVersion = pn.editVersion + 1]

\* preservedFrontmatter.trimEnd() + '\n\n' + fullContent, when there is a frontmatter
withFrontmatter(pn, content) ==
  IF pn.preservedFrontmatter # EmptyStr
    THEN Cat(Cat(TrimEndStr(pn.preservedFrontmatter), << <<>>, <<>>, <<>> >>), content)
  ELSE content

\* the gates, the checkpoints and the cursor last read, serialised
metadataSections(pn) ==
  [g \in 1..Len(pn.preservedGates) |-> serializeGate(pn.preservedGates[g])]
  \o [c \in 1..Len(pn.preservedCheckpoints) |-> serializeCheckpoint(pn.preservedCheckpoints[c])]
  \o (IF pn.preservedCursor # Null THEN <<serializeCursor(pn.preservedCursor)>> ELSE << >>)

\* fullContent.trimEnd() + '\n\n' + metadataSections.join('\n\n') + '\n'
withSections(full, sections) ==
  IF Len(sections) > 0
    THEN Cat(Cat(Cat(TrimEndStr(full), << <<>>, <<>>, <<>> >>), JoinNLNL(sections)), << <<>>, <<>> >>)
  ELSE full

\* the text document.edit writes for the content the webview sent
fullContent(pn, content) == withSections(withFrontmatter(pn, content), metadataSections(pn))

\* what the editor of the webview may send: the body, with or without a memo
WebviewContents ==
  {<<<<"#","#"," ","A","u","t","h">>, In.hello>>,
   <<<<"#","#"," ","A","u","t","h">>, In.hello,
     <<"<","!","-","-"," ","U","S","E","R","_","M","E","M","O"," ","i","d","=","\"","m","1","\""," ","c","o","l","o","r","=","\"","r","e","d","\""," ",":"," ","f","i","x"," ","-","-",">">>>>}

\* the documents opened in the editor, and what an edit from outside may leave there
PlainDoc == <<<<"#","#"," ","A","u","t","h">>, In.hello, <<>>>>
TitledDoc ==
  mergeDocument(
    Bundle(<<<<"#","#"," ","A","u","t","h">>, In.hello>>, << >>,
           [NoExtras EXCEPT !.frontmatter = <<<<"-","-","-">>, In.title, <<"-","-","-">>, <<>>>>]))
FullDoc ==
  mergeDocument(
    Bundle(<<<<"#","#"," ","A","u","t","h">>, In.hello>>, << >>,
           [frontmatter |-> <<<<"-","-","-">>, In.title, <<"-","-","-">>, <<>>>>,
            gates |-> <<GateIn(One(In.go))>>, checkpoints |-> <<CheckpointIn(One(In.go))>>,
            cursor |-> CursorIn(One(In.go))]))
PanelDocs == {PlainDoc, TitledDoc, FullDoc}

\* the note of a checkpoint made from the webview, and of one made by the timer
WebviewNotes == {One(In.go)}
CommandNotes == {One(<<"a","u","t","o">>)}

MaxEdits == 2

\* the document is replaced by text and the change listeners run
applied(pn, text) ==
  /\ markdown' = text
  /\ saved' = Append(saved, text)
  /\ panel' = changed(pn, text, Len(saved) + 1)

\* the webview sends document.edit
DocumentEdit ==
  /\ pc = "panel"
  /\ Len(saved) < MaxEdits
  /\ \E content \in WebviewContents :
       /\ call' = [content |-> content, held |-> panel]
       /\ applied(bumped(panel), fullContent(bumped(panel), content))
  /\ UNCHANGED <<pc, parts, parts0, text0, reply, resolvedIdx, sync, webview, queue>>

\* the webview sends checkpoint.create
CheckpointCreate ==
  /\ pc = "panel"
  /\ Len(saved) < MaxEdits
  /\ \E note \in WebviewNotes :
       /\ call' = [note |-> note, from |-> "webview"]
       /\ applied(bumped(panel),
                  createCheckpoint(markdown, note, <<"a","b","c","1","2","3">>, Len(saved) + 1).updatedMarkdown)
  /\ UNCHANGED <<pc, parts, parts0, text0, reply, resolvedIdx, sync, webview, queue>>

\* createManualCheckpoint and createAutoCheckpoint of the sync controller
ControllerCheckpoint ==
  /\ pc = "panel"
  /\ Len(saved) < MaxEdits
  /\ \E note \in CommandNotes :
       /\ call' = [note |-> note, from |-> "controller"]
       /\ applied(panel,
                  createCheckpoint(markdown, note, <<"0","0","0","0","0","0">>, Len(saved) + 1).updatedMarkdown)
  /\ UNCHANGED <<pc, parts, parts0, text0, reply, resolvedIdx, sync, webview, queue>>

\* the text is changed from outside the panel: typed in the editor, or written by a tool
ExternalEdit ==
  /\ pc = "panel"
  /\ Len(saved) < MaxEdits
  /\ \E text \in PanelDocs \ {markdown} :
       /\ call' = [text |-> text]
       /\ applied(panel, text)
  /\ UNCHANGED <<pc, parts, parts0, text0, reply, resolvedIdx, sync, webview, queue>>

\* the webview sends webview.ready, or the active editor changes to the document
Ready ==
  /\ pc = "panel"
  /\ panel' = sendDocumentToWebview(panel, splitDocument(markdown, Len(saved) + 1))
  /\ UNCHANGED <<pc, parts, markdown, parts0, text0, saved, call, reply, resolvedIdx, sync, webview, queue>>

\* the document is open and the panel has loaded it
InitPanel ==
  /\ markdown \in PanelDocs
  /\ text0 = markdown
  /\ panel = sendDocumentToWebview(NewPanel, splitDocument(markdown, 1))
  /\ parts0 = NoParts /\ parts = NoParts
  /\ pc = "panel"
  /\ saved = << >>
  /\ call = Null /\ reply = Null /\ resolvedIdx = -1 /\ sync = Null /\ webview = Null /\ queue = Null

NextPanel ==
  \/ DocumentEdit
  \/ CheckpointCreate
  \/ ControllerCheckpoint
  \/ ExternalEdit
  \/ Ready

SpecPanel == InitPanel /\ [][NextPanel]_vars


\* --- properties of the panel ---

\* the last write was a document.edit of the webview
LastWasDocumentEdit == pc = "panel" /\ call # Null /\ "content" \in DOMAIN call

\* the fields the panel held when the edit arrived were those of the document as it then was
FreshAtEdit ==
  call.held = sendDocumentToWebview(call.held, splitDocument(BeforeLastWrite, 1))

\* the ids of the blocks
IdsOf(blocks) == {blocks[k].id : k \in 1..Len(blocks)}

\* every frontmatter, gate, checkpoint and cursor of the bundle before is in the bundle after
MetadataKept(before, after) ==
  /\ before.frontmatter # EmptyStr =>
       TrimEndStr(after.frontmatter) = TrimEndStr(before.frontmatter)
  /\ IdsOf(before.gates) \subseteq IdsOf(after.gates)
  /\ IdsOf(before.checkpoints) \subseteq IdsOf(after.checkpoints)
  /\ before.cursor # Null => after.cursor # Null

\* C19: whatever the webview edits, the webview checkpoints, the checkpoints of the
\* controller and the edits from outside did before, a document.edit removes neither the
\* frontmatter nor a GATE, CHECKPOINT or PLAN_CURSOR block that the document held just
\* before the edit was applied
C19_EditKeepsMetadata ==
  LastWasDocumentEdit =>
    MetadataKept(splitDocument(BeforeLastWrite, 1), splitDocument(markdown, 1))


\* --- properties of evaluateAllGates and of update_memo_status ---

\* the gate g with the status that evaluateGate gives it for the memos, nothing else changed
EvaluatedFrom(g, old, memos) ==
  /\ g.id = old.id /\ g.type = old.type /\ g.blockedBy = old.blockedBy
  /\ g.canProceedIf = old.canProceedIf /\ g.doneDefinition = old.doneDefinition
  /\ g.status = evaluateGate(old, memos)

\* one gate per gate of old, in the same order, each evaluated for the memos
AllEvaluatedFrom(gates, old, memos) ==
  /\ Len(gates) = Len(old)
  /\ \A k \in 1..Len(old) : EvaluatedFrom(gates[k], old[k], memos)

Others(memos, k) == [j \in 1..(Len(memos) - 1) |-> IF j < k THEN memos[j] ELSE memos[j + 1]]

\* the memo with the status, the owner and the time of the call; nothing else changed
StatusSet(memo, old, c, now) ==
  /\ memo = [old EXCEPT !.status = memo.status, !.owner = memo.owner, !.updatedAt = memo.updatedAt]
  /\ memo.status = c.status
  /\ memo.owner = (IF c.owner = Undefined THEN old.owner ELSE c.owner)
  /\ memo.updatedAt = toISOString(now)

\* the bundle after differs from the bundle before in the k-th memo only, k being the
\* place of the first memo with the id of the call
OnlyFirstChanged(after, before, k, c, now) ==
  /\ k # 0
  /\ Len(after.memos) = Len(before.memos)
  /\ StatusSet(after.memos[k], before.memos[k], c, now)
  /\ Others(after.memos, k) = Others(before.memos, k)
  /\ after.body = before.body
  /\ after.checkpoints = before.checkpoints
  /\ after.cursor = before.cursor

\* the file as the last write left it
FileAsWritten == IF Len(saved) = 0 THEN text0 ELSE saved[Len(saved)]

\* C25: update_memo_status with an id no memo of the document carries returns Memo not
\* found and the file is as it was; with an id some memo carries, the document read back
\* differs from the document before the call in the status, owner and updatedAt of the
\* first memo with that id only: the other memos, the body, the checkpoints and the
\* cursor are the same
C25_MemoStatusFrame ==
  (pc = "file" /\ LastWasMemoStatus) =>
    IF reply.isError
      THEN /\ reply = NotFound(call.memoId)
           /\ markdown = FileAsWritten
           /\ find(splitDocument(markdown, 1).memos, call.memoId) = 0
      ELSE OnlyFirstChanged(splitDocument(markdown, Len(saved)),
                            splitDocument(BeforeLastWrite, Len(saved)),
                            find(splitDocument(BeforeLastWrite, Len(saved)).memos, call.memoId),
                            call, Len(saved))

\* C25 witnesses: a call that found no memo after one that wrote, and a write to the first
\* of two memos that share the id
C25_Witness ==
  /\ pc = "file" /\ LastWasMemoStatus
  /\ \/ reply.isError /\ Len(saved) = 1
     \/ /\ ~reply.isError
        /\ Len(parts.memos) >= 2
        /\ parts.memos[1].id = call.memoId /\ parts.memos[2].id = call.memoId


\* --- anchors across merge and split ---

\* the id and the anchor of each memo
IdAnchors(memos) == [k \in 1..Len(memos) |-> <<memos[k].id, memos[k].anchor>>]

\* the memo is attached to a line (0-based) that its anchor does not name: found by the
\* probe around the anchor's line, or by the anchorText when the anchor finds nothing
Reattached(body, memo) ==
  /\ findMemoAnchorLine(body, memo) >= 0
  /\ memo.anchor # EmptyStr /\ anchorMatch(memo.anchor).ok
  /\ parseInt(anchorMatch(memo.anchor).caps[1][1]) - 1 # findMemoAnchorLine(body, memo)

\* C28: after merge then split every memo carries the anchor string it had in the bundle,
\* also a memo that merge attached through the hash probe or the anchorText fallback to
\* another line than the one its anchor names
C28_AnchorNotRewritten ==
  RoundTripDone => SameElements(IdAnchors(parts0.memos), IdAnchors(parts.memos))

\* C28 witness: a memo whose anchor names line 5 was attached to the second line of the
\* body, and the memo read back still has the anchor of line 5
C28_Witness ==
  /\ RoundTripDone
  /\ \E k \in 1..Len(parts0.memos) :
       /\ Reattached(parts0.body, parts0.memos[k])
       /\ findMemoAnchorLine(parts0.body, parts0.memos[k]) = 1
       /\ Len(parts.memos) = 1
       /\ parts.memos[1].anchor = AnchorOf(5, In.world)


\* --- a memo through the webview (markdown-roundtrip.ts, MemoBlock.tsx, Editor.tsx) ---

\* the attributes the memoBlock node gets from a v0.4 block with the attributes a: those
\* convertMemosToHtml writes into the div and MemoBlock.parseHTML reads from it
memoBlockOf(a) ==
  [memoId |-> OrElse(Attr(a, <<"i","d">>), EmptyStr),
   text |-> OrElse(Attr(a, <<"t","e","x","t">>), EmptyStr),
   color |-> OrElse(Attr(a, <<"c","o","l","o","r">>), One(<<"r","e","d">>)),
   status |-> OrElse(Attr(a, <<"s","t","a","t","u","s">>), One(<<"o","p","e","n">>)),
   anchorText |-> OrElse(Attr(a, <<"a","n","c","h","o","r","T","e","x","t">>), EmptyStr)]

\* status && status[1] !== 'open' ? ` status="${status[1]}"` : ''
statusAttr(status) ==
  IF status # One(<<"o","p","e","n">>)
    THEN Cat(One(<<" ","s","t","a","t","u","s","=","\"">>), Cat(status, One(<<"\"">>)))
  ELSE EmptyStr

\* the comment serializeWithMemos writes for a memoBlock node
serializeWithMemos(node) ==
  Cat(One(<<"<","!","-","-"," ","U","S","E","R","_","M","E","M","O"," ","i","d","=","\"">>),
  Cat(node.memoId,
  Cat(One(<<"\""," ","c","o","l","o","r","=","\"">>),
  Cat(node.color,
  Cat(One(<<"\"">>),
  Cat(statusAttr(node.status),
  Cat(One(<<" ",":"," ">>),
  Cat(node.text, One(<<" ","-","-",">">>)))))))))

\* /^<!-- CHECKPOINT\s/
IsCheckpointLine(line) ==
  /\ StartsWith(line, <<"<","!","-","-"," ","C","H","E","C","K","P","O","I","N","T">>)
  /\ Len(line) > 15 /\ IsSpace(line[16])

RECURSIVE convertMemos(_, _)
\* the lines the editor gives back for the lines convertMemosToHtml reads from line i on:
\* a v0.4 memo becomes a memoBlock node and then a comment of one line, the GATE and
\* PLAN_CURSOR blocks and the CHECKPOINT lines are left out, any other line is kept
convertMemos(lines, i) ==
  IF i > Len(lines) THEN << >>
  ELSE IF test(MEMO_V4_START_RE, Trim(lines[i])) THEN
    serializeWithMemos(memoBlockOf(parseAttrs(attrLines(lines, i, MEMO_V4_END_RE))))
    \o convertMemos(lines, BlockEnd(lines, i, MEMO_V4_END_RE) + 1)
  ELSE IF test(GATE_START_RE, Trim(lines[i])) THEN
    convertMemos(lines, BlockEnd(lines, i, GATE_END_RE) + 1)
  ELSE IF test(CURSOR_START_RE, Trim(lines[i])) THEN
    convertMemos(lines, BlockEnd(lines, i, CURSOR_END_RE) + 1)
  ELSE IF IsCheckpointLine(Trim(lines[i])) THEN convertMemos(lines, i + 1)
  ELSE <<lines[i]>> \o convertMemos(lines, i + 1)

\* the content the webview sends back for the document raw: the text below the
\* frontmatter, converted, without its trailing empty lines
webviewContent(raw) ==
  joinLines(TrimTrailingBlank(convertMemos(SubSeq(raw, FrontmatterEnd(raw) + 1, Len(raw)), 1)))

\* the files of the round trip: two memos under two lines, bare and with frontmatter,
\* gate, checkpoint and cursor
RoundDocs ==
  {Bundle(<<In.hello, In.world>>,
          <<MemoIn(In.m1, Open), [MemoIn(In.m2, Open) EXCEPT !.color = One(<<"b","l","u","e">>)]>>, x) :
     x \in {NoExtras,
            [NoExtras EXCEPT !.checkpoints = <<CheckpointIn(One(In.go))>>],
            [frontmatter |-> <<<<"-","-","-">>, In.title, <<"-","-","-">>, <<>>>>,
             gates |-> <<GateOn(In.g1, <<One(In.m1)>>)>>,
             checkpoints |-> <<CheckpointIn(One(In.go))>>,
             cursor |-> CursorIn(One(In.go))]}}

\* the calls of update_memo_status before the document is edited in the webview
RoundCalls ==
  {[memoId |-> One(In.m1), status |-> Done, owner |-> Undefined],
   [memoId |-> One(In.m1), status |-> One(<<"a","n","s","w","e","r","e","d">>), owner |-> One(<<"a","g","e","n","t">>)],
   [memoId |-> One(In.m2), status |-> One(<<"w","o","n","t","f","i","x">>), owner |-> One(<<"t","o","o","l">>)],
   [memoId |-> One(In.m2), status |-> Done, owner |-> Undefined],
   [memoId |-> One(In.m3), status |-> Done, owner |-> Undefined]}

\* update_memo_status(file, memoId, status, owner) with one of these calls
UpdateBeforeSave ==
  /\ pc = "file"
  /\ Len(saved) < MaxCalls
  /\ \E c \in RoundCalls :
       /\ call' = c
       /\ updateIn(splitDocument(markdown, Len(saved) + 1), c, Len(saved) + 1)
  /\ UNCHANGED <<pc, parts0, text0, resolvedIdx, panel, sync, webview, queue>>

\* the document written by update_memo_status is loaded into the webview and saved back
\* by document.edit
WebviewSave ==
  /\ pc = "file"
  /\ Len(saved) < MaxCalls + 1
  /\ call # Null /\ "memoId" \in DOMAIN call /\ ~reply.isError
  /\ call' = [content |-> webviewContent(markdown)]
  /\ markdown' = fullContent(sendDocumentToWebview(NewPanel, splitDocument(markdown, Len(saved) + 1)),
                             webviewContent(markdown))
  /\ saved' = Append(saved, markdown')
  /\ UNCHANGED <<pc, parts, parts0, text0, reply, resolvedIdx, panel, sync, webview, queue>>

InitRound ==
  /\ parts0 \in RoundDocs
  /\ parts = parts0
  /\ markdown = mergeDocument(parts0)
  /\ text0 = markdown
  /\ pc = "file"
  /\ saved = << >>
  /\ call = Null /\ reply = Null /\ resolvedIdx = -1 /\ panel = Null /\ sync = Null /\ webview = Null /\ queue = Null

NextRound ==
  \/ UpdateBeforeSave
  \/ WebviewSave

SpecRound == InitRound /\ [][NextRound]_vars

\* the id, the status and the owner of each memo
IdStatusOwners(memos) ==
  [k \in 1..Len(memos) |-> <<memos[k].id, memos[k].status, memos[k].owner>>]

\* the last write was the document.edit of a webview that had loaded the written file
LastWasWebviewSave == pc = "file" /\ call # Null /\ "content" \in DOMAIN call

\* C29: after a document written by update_memo_status is loaded into the webview and
\* saved back by document.edit, split of the saved text gives every memo the status and
\* the owner it had before the edit
C29_StatusOwnerSurvive ==
  LastWasWebviewSave =>
    SameElements(IdStatusOwners(splitDocument(BeforeLastWrite, 1).memos),
                 IdStatusOwners(splitDocument(markdown, 1).memos))

\* the id and the status of each memo
IdStatuses(memos) == [k \in 1..Len(memos) |-> <<memos[k].id, memos[k].status>>]

\* the statuses alone survive the edit
StatusesSurvive ==
  LastWasWebviewSave =>
    SameElements(IdStatuses(splitDocument(BeforeLastWrite, 1).memos),
                 IdStatuses(splitDocument(markdown, 1).memos))


\* --- more properties of the panel ---

\* the last write came from outside the webview: an edit in the text editor or by a
\* tool, or a checkpoint of the sync controller
LastWasFromOutside ==
  /\ pc = "panel" /\ call # Null
  /\ \/ "text" \in DOMAIN call
     \/ ("from" \in DOMAIN call /\ call.from = "controller")

\* the preserved fields are those of the document as it is
PanelRefreshed == panel = sendDocumentToWebview(panel, splitDocument(markdown, 1))

\* C26: after every change of the document that does not come from the webview the
\* preserved frontmatter, gates, checkpoints and cursor of the panel are those of the
\* changed document, also when the webview has made no edit yet
C26_OutsideChangeRefreshes == LastWasFromOutside => PanelRefreshed

\* the same, once the webview has made an edit
RefreshedAfterFirstEdit == (LastWasFromOutside /\ panel.editVersion > 0) => PanelRefreshed

\* the text before the n-th write
TextBefore(n) == IF n >= 2 THEN saved[n - 1] ELSE text0

\* the n-th write was a checkpoint of the sync controller
WasControllerCheckpoint(n) ==
  \E note \in CommandNotes :
    saved[n] = createCheckpoint(TextBefore(n), note, <<"0","0","0","0","0","0">>, n).updatedMarkdown

\* the last write was a checkpoint of the sync controller
LastWasControllerCheckpoint ==
  pc = "panel" /\ call # Null /\ "from" \in DOMAIN call /\ call.from = "controller"

\* the lines of the text up to its last line that is not empty
KeptLines(text) == TrimEndStr(text)

\* the text begins with the lines
BeginsWith(text, lines) == Len(text) >= Len(lines) /\ SubSeq(text, 1, Len(lines)) = lines

\* C21: a checkpoint written by the sync controller keeps the text the write before it
\* left and adds its comment below, and a document.edit that follows a checkpoint of the
\* sync controller keeps the checkpoint that write added: neither write of the pair
\* overwrites the change of the other
C21_NoLostUpdate ==
  /\ LastWasControllerCheckpoint => BeginsWith(markdown, KeptLines(BeforeLastWrite))
  /\ (LastWasDocumentEdit /\ Len(saved) >= 2 /\ WasControllerCheckpoint(Len(saved) - 1)) =>
       IdsOf(splitDocument(BeforeLastWrite, 1).checkpoints)
         \subseteq IdsOf(splitDocument(markdown, 1).checkpoints)

\* the checkpoint after the edit alone: the text of the edit is kept
EditThenCheckpointKept ==
  LastWasControllerCheckpoint => BeginsWith(markdown, KeptLines(BeforeLastWrite))


\* =========================================================================
\* The host as a sequence of events: the listeners and timers of the sync
\* controller, the message handlers of the panel, the debounce of the webview.
\* A document is known by its uri; what a write puts into it is known by the
\* document the webview held when it produced the content.
\* =========================================================================

\* the markdown documents open in the editor; the active editor shows one of them, or
\* no markdown document
Uris == {"A", "B"}
Editors == Uris \cup {"none"}

\* undefined, where a document or its uri is expected
NoDocument == "undefined"

MaxSwitches == 2
MaxWrites == 2

\* the fields of the sync controller after construction
NewSync ==
  [switchToken |-> 0, debounceTimer |-> Null, currentDocumentUri |-> NoDocument,
   hasChanges |-> [u \in Uris |-> FALSE]]

\* the fields of the panel the events read and write
NewHostPanel == [editVersion |-> 0, lastWebviewEditVersion |-> 0, currentDocument |-> NoDocument]

\* the webview before any document is loaded
NewWebview == [loaded |-> NoDocument, isLoading |-> FALSE, pending |-> Null]

\* handleActiveEditorChange without the token and without clearTimeout: every timer
\* stays set and carries the token that never changes
handleActiveEditorChange_noToken(s, timers, editor) ==
  [sync |-> [s EXCEPT !.debounceTimer = [token |-> s.switchToken, editor |-> editor]],
   timers |-> timers \cup {[token |-> s.switchToken, editor |-> editor]}]

\* handleActiveEditorChange(editor): the token is advanced, the timer set before is
\* cleared and a new one is set
handleActiveEditorChange(s, timers, editor) ==
  [sync |-> [s EXCEPT !.switchToken = s.switchToken + 1,
                      !.debounceTimer = [token |-> s.switchToken + 1, editor |-> editor]],
   timers |-> (timers \ {s.debounceTimer}) \cup {[token |-> s.switchToken + 1, editor |-> editor]}]

\* onDidChangeActiveTextEditor: the editor that became active, and which change of the
\* active editor brought it
editorOf(q, document) == [document |-> document, event |-> q.events + 1]

\* the active editor changes
EditorChange ==
  /\ pc = "host"
  /\ queue.events < MaxSwitches
  /\ \E document \in Editors \ {queue.activeEditor} :
       /\ sync' = handleActiveEditorChange(sync, queue.timers, editorOf(queue, document)).sync
       /\ queue' = [queue EXCEPT
                      !.timers = handleActiveEditorChange(sync, queue.timers, editorOf(queue, document)).timers,
                      !.activeEditor = document,
                      !.events = queue.events + 1]
       /\ call' = [op |-> "editor"]
  /\ UNCHANGED <<pc, parts, markdown, parts0, text0, saved, reply, resolvedIdx, panel, webview>>

\* the document.load the webview receives
loadedInto(w, uri) == [w EXCEPT !.loaded = uri, !.isLoading = TRUE]

\* the callback of the timer t, 150 ms after it was set
SwitchTimer ==
  /\ pc = "host"
  /\ \E t \in queue.timers :
       /\ queue' = [queue EXCEPT !.timers = queue.timers \ {t}]
       /\ call' = [op |-> "switch"]
       /\ IF sync.switchToken # t.token
            THEN /\ reply' = [of |-> "switch", posted |-> "nothing", editor |-> t.editor,
                              before |-> sync.currentDocumentUri]
                 /\ UNCHANGED <<sync, panel, webview>>
          ELSE IF t.editor.document = "none"
            THEN /\ sync' = [sync EXCEPT !.currentDocumentUri = NoDocument]
                 /\ reply' = [of |-> "switch", posted |-> "document.empty", editor |-> t.editor,
                              before |-> sync.currentDocumentUri]
                 /\ UNCHANGED <<panel, webview>>
          ELSE /\ sync' = [sync EXCEPT !.currentDocumentUri = t.editor.document]
               /\ panel' = [panel EXCEPT !.currentDocument = t.editor.document]
               /\ webview' = loadedInto(webview, t.editor.document)
               /\ reply' = [of |-> "switch", posted |-> "document.load", editor |-> t.editor,
                            before |-> sync.currentDocumentUri]
  /\ UNCHANGED <<pc, parts, markdown, parts0, text0, saved, resolvedIdx>>

\* isLoadingRef.current = false, 100 ms after a document.load
LoadingDone ==
  /\ pc = "host"
  /\ webview.isLoading
  /\ webview' = [webview EXCEPT !.isLoading = FALSE]
  /\ call' = [op |-> "loaded"]
  /\ UNCHANGED <<pc, parts, markdown, parts0, text0, saved, reply, resolvedIdx, panel, sync, queue>>

\* handleUpdate of the webview: nothing while a document is loading; otherwise the timer
\* set before is cleared and a new one is set, which holds the content annotated now
WebviewAnnotate ==
  /\ pc = "host"
  /\ webview.loaded # NoDocument
  /\ ~webview.isLoading
  /\ webview' = [webview EXCEPT !.pending = [content |-> webview.loaded]]
  /\ call' = [op |-> "annotate"]
  /\ UNCHANGED <<pc, parts, markdown, parts0, text0, saved, reply, resolvedIdx, panel, sync, queue>>

\* this.currentDocument ?? this.getActiveMarkdownDocument()
documentOf(pn, activeEditor) ==
  IF pn.currentDocument # NoDocument THEN pn.currentDocument
  ELSE IF activeEditor \in Uris THEN activeEditor
  ELSE NoDocument

\* applyEdit on the document uri: the write is made, its change event is to be delivered;
\* the event is alone when no other change event waits to be delivered
applyEdit(q, uri, origin) ==
  [q EXCEPT !.changes = Append(q.changes, [document |-> uri, origin |-> origin,
                                           alone |-> q.changes = << >>])]

\* the callback of the webview's timer, 300 ms after it was set, and the host's handler of
\* the document.edit it posts
WebviewSend ==
  /\ pc = "host"
  /\ webview.pending # Null
  /\ Len(saved) < MaxWrites
  /\ webview' = [webview EXCEPT !.pending = Null]
  /\ call' = [op |-> "document.edit"]
  /\ IF documentOf(panel, queue.activeEditor) = NoDocument
       THEN UNCHANGED <<panel, saved, queue>>
     ELSE /\ panel' = [bumped(panel) EXCEPT !.currentDocument = documentOf(panel, queue.activeEditor)]
          /\ saved' = Append(saved, [kind |-> "document.edit",
                                     target |-> documentOf(panel, queue.activeEditor),
                                     content |-> webview.pending.content])
          /\ queue' = applyEdit(queue, documentOf(panel, queue.activeEditor), "webview")
  /\ UNCHANGED <<pc, parts, markdown, parts0, text0, reply, resolvedIdx, sync>>

\* the host's handler of checkpoint.create, posted by the webview that shows a document
WebviewCheckpoint ==
  /\ pc = "host"
  /\ webview.loaded # NoDocument
  /\ Len(saved) < MaxWrites
  /\ call' = [op |-> "checkpoint.create"]
  /\ IF documentOf(panel, queue.activeEditor) = NoDocument
       THEN UNCHANGED <<panel, saved, queue>>
     ELSE /\ panel' = [bumped(panel) EXCEPT !.currentDocument = documentOf(panel, queue.activeEditor)]
          /\ saved' = Append(saved, [kind |-> "checkpoint.create",
                                     target |-> documentOf(panel, queue.activeEditor),
                                     content |-> documentOf(panel, queue.activeEditor)])
          /\ queue' = applyEdit(queue, documentOf(panel, queue.activeEditor), "webview")
  /\ UNCHANGED <<pc, parts, markdown, parts0, text0, reply, resolvedIdx, sync, webview>>

\* the user types in the text editor of the document uri
OutsideEdit ==
  /\ pc = "host"
  /\ Len(saved) < MaxWrites
  /\ \E uri \in Uris :
       /\ saved' = Append(saved, [kind |-> "editor", target |-> uri, content |-> uri])
       /\ queue' = applyEdit(queue, uri, "editor")
  /\ call' = [op |-> "editor.edit"]
  /\ UNCHANGED <<pc, parts, markdown, parts0, text0, reply, resolvedIdx, panel, sync, webview>>

\* handleDocumentUpdate(document): the panel takes the document and posts document.load
handleDocumentUpdate(h, uri) ==
  [h EXCEPT !.panel = [h.panel EXCEPT !.currentDocument = uri],
            !.webview = loadedInto(h.webview, uri),
            !.loads = h.loads + 1]

\* markActivity(uri)
markActivity(s, uri) == [s EXCEPT !.hasChanges = [s.hasChanges EXCEPT ![uri] = TRUE]]

\* clearChanges(uri)
clearChanges(s, uri) == [s EXCEPT !.hasChanges = [s.hasChanges EXCEPT ![uri] = FALSE]]

\* the change listener of the sync controller, on the change event e
syncListener(h, e) ==
  IF h.sync.currentDocumentUri = NoDocument THEN h
  ELSE IF e.document # h.sync.currentDocumentUri THEN h
  ELSE IF h.panel.lastWebviewEditVersion = h.panel.editVersion
    THEN [h EXCEPT !.sync = markActivity(h.sync, e.document)]
  ELSE handleDocumentUpdate([h EXCEPT !.sync = markActivity(h.sync, e.document)], e.document)

\* the change listener of the panel, on the change event e
panelListener(h, e) ==
  IF h.panel.currentDocument = NoDocument THEN h
  ELSE IF e.document # h.panel.currentDocument THEN h
  ELSE IF h.panel.lastWebviewEditVersion = h.panel.editVersion
    THEN [h EXCEPT !.panel = [h.panel EXCEPT !.lastWebviewEditVersion = 0]]
  ELSE [h EXCEPT !.webview = loadedInto(h.webview, e.document), !.loads = h.loads + 1]

\* both listeners on the change event e, the sync controller's first
listened(h, e) == panelListener(syncListener(h, e), e)

\* onDidChangeTextDocument: the oldest change event is delivered
HandleChange ==
  /\ pc = "host"
  /\ queue.changes # << >>
  /\ queue' = [queue EXCEPT !.changes = Tail(queue.changes)]
  /\ sync' = listened([sync |-> sync, panel |-> panel, webview |-> webview, loads |-> 0],
                      Head(queue.changes)).sync
  /\ panel' = listened([sync |-> sync, panel |-> panel, webview |-> webview, loads |-> 0],
                       Head(queue.changes)).panel
  /\ webview' = listened([sync |-> sync, panel |-> panel, webview |-> webview, loads |-> 0],
                         Head(queue.changes)).webview
  /\ reply' = [of |-> "change", origin |-> Head(queue.changes).origin,
               alone |-> Head(queue.changes).alone /\ Tail(queue.changes) = << >>,
               loads |-> listened([sync |-> sync, panel |-> panel, webview |-> webview, loads |-> 0],
                                  Head(queue.changes)).loads]
  /\ call' = [op |-> "change"]
  /\ UNCHANGED <<pc, parts, markdown, parts0, text0, saved, resolvedIdx>>

\* this.currentDocumentUri ?? getActiveMarkdownDocument()?.uri
currentDocument(s, activeEditor) ==
  IF s.currentDocumentUri # NoDocument THEN s.currentDocumentUri
  ELSE IF activeEditor \in Uris THEN activeEditor
  ELSE NoDocument

\* the 10-minute timer: handleTimerCheckpoint, and createAutoCheckpoint up to its await.
\* The host has then nothing else to run: what the events before left is handled.
TimerTick ==
  /\ pc = "host"
  /\ queue.changes = << >>
  /\ queue.ends = << >>
  /\ Len(saved) < MaxWrites + 1
  /\ call' = [op |-> "timer"]
  /\ IF currentDocument(sync, queue.activeEditor) = NoDocument
       THEN UNCHANGED <<saved, queue>>
     ELSE IF ~sync.hasChanges[currentDocument(sync, queue.activeEditor)]
       THEN UNCHANGED <<saved, queue>>
     ELSE /\ saved' = Append(saved, [kind |-> "checkpoint.auto",
                                     target |-> currentDocument(sync, queue.activeEditor),
                                     content |-> currentDocument(sync, queue.activeEditor)])
          /\ queue' = [applyEdit(queue, currentDocument(sync, queue.activeEditor), "controller")
                         EXCEPT !.ends = Append(queue.ends, currentDocument(sync, queue.activeEditor))]
  /\ UNCHANGED <<pc, parts, markdown, parts0, text0, reply, resolvedIdx, panel, sync, webview>>

\* createAutoCheckpoint after its await: the applyEdit has succeeded. endFirst remembers
\* that a completion was handled while the change event of the checkpoint still waited.
CheckpointEnd ==
  /\ pc = "host"
  /\ queue.ends # << >>
  /\ sync' = clearChanges(sync, Head(queue.ends))
  /\ queue' = [queue EXCEPT !.ends = Tail(queue.ends),
                            !.endFirst = queue.endFirst \/ queue.changes # << >>]
  /\ call' = [op |-> "checkpoint.auto"]
  /\ UNCHANGED <<pc, parts, markdown, parts0, text0, saved, reply, resolvedIdx, panel, webview>>

InitSync ==
  /\ pc = "host"
  /\ parts = NoParts /\ parts0 = NoParts
  /\ markdown = EmptyStr /\ text0 = EmptyStr
  /\ saved = << >>
  /\ call = [op |-> "activate"] /\ reply = Null /\ resolvedIdx = -1
  /\ panel = NewHostPanel
  /\ sync = NewSync
  /\ webview = NewWebview
  /\ queue = [timers |-> {}, changes |-> << >>, ends |-> << >>, activeEditor |-> "none", events |-> 0,
              endFirst |-> FALSE]

NextSync ==
  \/ EditorChange
  \/ SwitchTimer
  \/ LoadingDone
  \/ WebviewAnnotate
  \/ WebviewSend
  \/ WebviewCheckpoint
  \/ OutsideEdit
  \/ HandleChange
  \/ TimerTick
  \/ CheckpointEnd

SpecSync == InitSync /\ [][NextSync]_vars

\* --- properties of the host's events ---

\* the last step was the callback of a switch timer and it did something
SwitchTookEffect == call.op = "switch" /\ reply.posted # "nothing"

\* C23: of several changes of the active editor less than 150 ms apart only the last takes
\* effect: a timer still set is the one of the last change, and a callback that sets the
\* current document or posts document.load or document.empty is the one of the last change
C23_OnlyLastSwitchTakesEffect ==
  /\ \A t \in queue.timers : t.editor.event = queue.events
  /\ SwitchTookEffect => reply.editor.event = queue.events

\* C23 witness: the active editor went to A and to B before any timer ran, and the callback
\* of the second change has loaded B
C23_Witness ==
  /\ SwitchTookEffect
  /\ queue.events = 2
  /\ reply.editor = [document |-> "B", event |-> 2]
  /\ reply.before = NoDocument
  /\ sync.currentDocumentUri = "B"
  /\ webview.loaded = "B"

\* the last step delivered the change event of a write the webview asked for
WebviewChangeHandled == call.op = "change" /\ reply.origin = "webview"

\* C22: a change that results from an edit of the webview (document.edit or
\* checkpoint.create) is not sent back to the webview as document.load, also when a second
\* edit of the webview is received before the change event of the first has been handled
C22_NoEcho == WebviewChangeHandled => reply.loads = 0

\* every write so far was asked for by the webview
OnlyWebviewWrites ==
  \A i \in 1..Len(saved) : saved[i].kind \in {"document.edit", "checkpoint.create"}

\* no echo of an edit of the webview while the webview alone writes
NoEchoAmongWebviewEdits == (WebviewChangeHandled /\ OnlyWebviewWrites) => reply.loads = 0

\* no echo of an edit of the webview whose change event is handled before the next write
NoEchoOfLoneEdit == (WebviewChangeHandled /\ reply.alone) => reply.loads = 0

\* C27: a document.edit is written only into the document whose content the webview held
\* when it produced the edit, also when the active document has switched while the edit
\* waited in the webview's timer
C27_EditGoesToItsDocument ==
  \A i \in 1..Len(saved) :
    saved[i].kind = "document.edit" => saved[i].target = saved[i].content

\* a document.edit whose content is of the document the webview still shows goes to
\* that document
EditWithoutSwitchGoesHome ==
  (call.op = "document.edit" /\ saved # << >> /\ saved[Len(saved)].kind = "document.edit"
     /\ saved[Len(saved)].content = webview.loaded)
    => saved[Len(saved)].target = saved[Len(saved)].content

\* the writes i < j are automatic checkpoints of one document
TwoAutoCheckpoints(i, j) ==
  /\ i < j
  /\ saved[i].kind = "checkpoint.auto"
  /\ saved[j].kind = "checkpoint.auto"
  /\ saved[i].target = saved[j].target

\* a write other than an automatic checkpoint went into the document between i and j
ChangedBetween(i, j) ==
  \E k \in (i + 1)..(j - 1) :
    saved[k].target = saved[i].target /\ saved[k].kind # "checkpoint.auto"

\* C30: the timer adds an automatic checkpoint only when the document changed since its
\* last checkpoint: between two automatic checkpoints of a document there is another write
\* to it, whatever the order in which the change event of the first checkpoint and the
\* completion of its applyEdit are handled
C30_TimerCheckpointNeedsChange ==
  \A i \in 1..Len(saved) : \A j \in 1..Len(saved) :
    TwoAutoCheckpoints(i, j) => ChangedBetween(i, j)

\* the same while every change event of a checkpoint is handled before its completion
CheckpointNeedsChangeEventFirst ==
  ~queue.endFirst => C30_TimerCheckpointNeedsChange

\* a timer tick has added a checkpoint whose change event and completion were handled in
\* that order, and a later tick with no edit in between has added nothing
EventFirstTickAddsNothing ==
  /\ call.op = "timer"
  /\ ~queue.endFirst
  /\ saved # << >>
  /\ saved[Len(saved)].kind = "checkpoint.auto"
  /\ queue.changes = << >> /\ queue.ends = << >>
  /\ ~sync.hasChanges[saved[Len(saved)].target]

====
